---- MODULE Spec2Model ----
(***************************************************************************)
(* A model of the chess rules engine of src/src/lib.rs (struct Game and    *)
(* its methods).  The value of the variable game is the Game struct; the   *)
(* methods are operators from a Game value (and the call's arguments) to   *)
(* the Game value the call leaves behind.  Vec<Position> results are       *)
(* modelled as sets of positions: the code only tests them for membership  *)
(* and emptiness.  Strings are sequences of one-character strings.         *)
(***************************************************************************)
EXTENDS Integers, Sequences, FiniteSets, TLC

\* game: the Game value.  last: the latest call, whether it returned Ok, and
\* the state or the kind of error message it returned.
\* prev: the Game value that call started from.  line, step, left: the caller,
\* who replays one of the recorded games of Lines and leaves it for a call of
\* its own choosing.
VARIABLES game, last, prev, line, step, left

vars == <<game, last, prev, line, step, left>>

(***************************************************************************)
(* Colour, PieceType, Piece                                                *)
(***************************************************************************)
Colours == {"White", "Black"}

PieceTypes == {"King", "Queen", "Rook", "Knight", "Bishop", "Pawn"}

invert(c) == IF c = "White" THEN "Black" ELSE "White"

pawn_dir(c) == IF c = "White" THEN 1 ELSE -1

Piece(t, c) == [piece_type |-> t, colour |-> c]

\* Option<Piece>::None
None == [piece_type |-> "None", colour |-> "None"]

is_pawn(p) == p.piece_type = "Pawn"

is_rook(p) == p.piece_type = "Rook"

is_bishop(p) == p.piece_type = "Bishop"

is_king(p) == p.piece_type = "King"

type_char(t) ==
    CASE t = "King" -> "K" [] t = "Queen" -> "Q" [] t = "Rook" -> "R"
      [] t = "Knight" -> "N" [] t = "Bishop" -> "B" [] t = "Pawn" -> "P"

to_ascii_lowercase(ch) ==
    CASE ch = "K" -> "k" [] ch = "Q" -> "q" [] ch = "R" -> "r" [] ch = "N" -> "n"
      [] ch = "B" -> "b" [] ch = "P" -> "p" [] ch = "A" -> "a" [] ch = "C" -> "c"
      [] ch = "D" -> "d" [] ch = "E" -> "e" [] ch = "F" -> "f" [] ch = "G" -> "g"
      [] ch = "H" -> "h" [] OTHER -> ch

to_char_colourcased(p) ==
    IF p.colour = "White" THEN type_char(p.piece_type)
    ELSE to_ascii_lowercase(type_char(p.piece_type))

(***************************************************************************)
(* Position                                                                *)
(***************************************************************************)
\* Position::NULL
NULL == [rank |-> 255, file |-> 255, idx |-> 255]

\* the Err(..) of a Result<Position, String>
ErrPos == [rank |-> 999, file |-> 999, idx |-> 999]

Position_new(rank, file) ==
    IF rank >= 8 \/ file >= 8 THEN ErrPos
    ELSE [rank |-> rank, file |-> file, idx |-> rank * 8 + file]

new_from_idx(idx) ==
    IF idx > 63 THEN ErrPos
    ELSE [rank |-> idx \div 8, file |-> idx % 8, idx |-> idx]

valid(pos) == pos.rank < 8 /\ pos.rank < 8 /\ pos.idx = pos.rank * 8 + pos.file

offset(pos, rank_offset, file_offset) ==
    LET rank_result == pos.rank + rank_offset
        file_result == pos.file + file_offset
    IN  IF rank_result < 0 \/ rank_result > 7 \/ file_result < 0 \/ file_result > 7
        THEN ErrPos
        ELSE [rank |-> rank_result, file |-> file_result,
              idx |-> rank_result * 8 + file_result]

FileChars == <<"a", "b", "c", "d", "e", "f", "g", "h">>

RankChars == <<"1", "2", "3", "4", "5", "6", "7", "8">>

\* Position::to_string, for NULL and for positions on the board
to_string(pos) ==
    IF pos = NULL THEN <<"-">>
    ELSE <<FileChars[pos.file + 1], RankChars[pos.rank + 1]>>

RECURSIVE trim_start(_)
trim_start(s) ==
    IF s # <<>> /\ Head(s) = " " THEN trim_start(Tail(s)) ELSE s

RECURSIVE trim_end(_)
trim_end(s) ==
    IF s # <<>> /\ s[Len(s)] = " " THEN trim_end(SubSeq(s, 1, Len(s) - 1)) ELSE s

trim(s) == trim_end(trim_start(s))

\* Position::parse_str
parse_str(str) ==
    LET chars == trim([i \in 1..Len(str) |-> to_ascii_lowercase(str[i])])
    IN  IF Len(chars) # 2 THEN ErrPos
        ELSE IF ~(\E f \in 1..8 : FileChars[f] = chars[1]) THEN ErrPos
        ELSE IF ~(\E r \in 1..8 : RankChars[r] = chars[2]) THEN ErrPos
        ELSE Position_new((CHOOSE r \in 1..8 : RankChars[r] = chars[2]) - 1,
                          (CHOOSE f \in 1..8 : FileChars[f] = chars[1]) - 1)

(***************************************************************************)
(* Game                                                                    *)
(***************************************************************************)
MAX_RECURSIONS == 2

BackRank == <<"Rook", "Knight", "Bishop", "Queen", "King", "Bishop", "Knight", "Rook">>

board_init ==
    [i \in 0..63 |->
        IF i < 8 THEN Piece(BackRank[i + 1], "White")
        ELSE IF i < 16 THEN Piece("Pawn", "White")
        ELSE IF i < 48 THEN None
        ELSE IF i < 56 THEN Piece("Pawn", "Black")
        ELSE Piece(BackRank[i - 55], "Black")]

\* a new game with Black to move and the clock running
Game_new_black_first ==
    [state |-> "InProgress",
     game_over_reason |-> "None",
     active_colour |-> "Black",
     board |-> board_init,
     history |-> <<>>,
     halfmoves |-> 1,
     fullmoves |-> 0,
     en_passant_target |-> NULL,
     white_has_right_to_castle_queenside |-> TRUE,
     white_has_right_to_castle_kingside |-> TRUE,
     black_has_right_to_castle_queenside |-> TRUE,
     black_has_right_to_castle_kingside |-> TRUE]

\* Game::new
Game_new ==
    [state |-> "InProgress",
     game_over_reason |-> "None",
     active_colour |-> "White",
     board |-> board_init,
     history |-> <<>>,
     halfmoves |-> 0,
     fullmoves |-> 0,
     en_passant_target |-> NULL,
     white_has_right_to_castle_queenside |-> TRUE,
     white_has_right_to_castle_kingside |-> TRUE,
     black_has_right_to_castle_queenside |-> TRUE,
     black_has_right_to_castle_kingside |-> TRUE]

\* one rank of the first field of Game::fen: the squares from file on, runs of
\* empty squares written as their length
RECURSIVE fen_rank(_, _, _, _)
fen_rank(board, rank, file, none_count) ==
    IF file = 8
    THEN (IF none_count > 0 THEN <<RankChars[none_count]>> ELSE <<>>)
    ELSE IF board[rank * 8 + file] = None
    THEN fen_rank(board, rank, file + 1, none_count + 1)
    ELSE (IF none_count > 0 THEN <<RankChars[none_count]>> ELSE <<>>)
         \o <<to_char_colourcased(board[rank * 8 + file])>>
         \o fen_rank(board, rank, file + 1, 0)

\* first field of Game::fen: the ranks from 8 to 1, a slash after each but the
\* last
fen_placement(board) ==
    fen_rank(board, 7, 0, 0) \o <<"/">> \o fen_rank(board, 6, 0, 0) \o <<"/">>
    \o fen_rank(board, 5, 0, 0) \o <<"/">> \o fen_rank(board, 4, 0, 0) \o <<"/">>
    \o fen_rank(board, 3, 0, 0) \o <<"/">> \o fen_rank(board, 2, 0, 0) \o <<"/">>
    \o fen_rank(board, 1, 0, 0) \o <<"/">> \o fen_rank(board, 0, 0, 0)

\* third field of Game::fen
fen_castling(g) ==
    LET s == (IF g.white_has_right_to_castle_kingside THEN <<"K">> ELSE <<>>)
             \o (IF g.white_has_right_to_castle_queenside THEN <<"Q">> ELSE <<>>)
             \o (IF g.black_has_right_to_castle_kingside THEN <<"k">> ELSE <<>>)
             \o (IF g.black_has_right_to_castle_queenside THEN <<"Q">> ELSE <<>>)
    IN  IF s = <<>> THEN <<"-">> ELSE s

\* fourth field of Game::fen
fen_en_passant(g) ==
    IF g.en_passant_target # NULL
    THEN LET dir == pawn_dir(g.active_colour) * (-1)
             pos1 == offset(g.en_passant_target, dir, 1)
             piece1 == IF pos1 # ErrPos THEN g.board[pos1.idx] ELSE None
             pos2 == offset(g.en_passant_target, dir, 1)
             piece2 == IF pos2 # ErrPos THEN g.board[pos2.idx] ELSE None
         IN  IF (piece1 # None /\ is_pawn(piece1)) \/ (piece2 # None /\ is_pawn(piece2))
             THEN to_string(g.en_passant_target)
             ELSE <<"-">>
    ELSE <<"-">>

\* Game::fen: the six fields the string holds between its spaces (the two
\* counters, which no code compares, as the numbers they print)
fen(g) ==
    <<fen_placement(g.board),
      <<IF g.active_colour = "White" THEN "w" ELSE "b">>,
      fen_castling(g),
      fen_en_passant(g),
      g.halfmoves,
      g.fullmoves>>

\* the loop shared by is_threefold_repetition and is_fivefold_repetition: the
\* history entries whose first four fen fields equal the current ones
repetition_count(g) ==
    LET f == fen(g)
    IN  Cardinality({k \in 1..Len(g.history) :
            \A i \in 1..4 : g.history[k].fen[i] = f[i]})

is_threefold_repetition(g) == repetition_count(g) >= 2

is_fivefold_repetition(g) == repetition_count(g) >= 4

is_50_move_rule(g) == g.halfmoves >= 100

is_75_move_rule(g) == g.halfmoves >= 150

is_gameover(g) == g.state = "GameOver"

is_checkmate(g) == g.game_over_reason = "Checkmate"

\* Game::find_king: the first square holding colour's king, ErrPos if none
find_king(g, colour) ==
    LET S == {i \in 0..63 : is_king(g.board[i]) /\ g.board[i].colour = colour}
    IN  IF S = {} THEN ErrPos
        ELSE new_from_idx(CHOOSE i \in S : \A j \in S : i <= j)

\* Game::find_pawn_to_promote
find_pawn_to_promote(g) ==
    LET rank == IF g.active_colour = "White" THEN 7 ELSE 0
        S == {file \in 0..6 : is_pawn(g.board[rank * 8 + file])}
    IN  IF S = {} THEN ErrPos
        ELSE Position_new(rank, CHOOSE f \in S : \A j \in S : f <= j)

\* Game::is_capture (from_pos holds a piece)
is_capture(g, from_pos, to_pos) ==
    LET p1 == g.board[from_pos.idx]
        p2 == g.board[to_pos.idx]
    IN  IF p2 = None
        THEN to_pos = g.en_passant_target /\ is_pawn(p1)
        ELSE p1.colour # p2.colour

(***************************************************************************)
(* Move application                                                        *)
(***************************************************************************)
\* an en-passant capture that leaves the pawn behind to_pos on the board
take_en_passant_leaving_pawn(b, taken, to_pos, dir) == b

\* the en-passant part of _perfom_move: the pawn behind to_pos leaves board b
take_en_passant(b, taken, to_pos, dir) ==
    IF taken THEN [b EXCEPT ![offset(to_pos, -dir, 0).idx] = None] ELSE b

\* the castling part of _perfom_move: a king that arrives on c1, g1, c8 or g8
\* while the right named there is held takes the corner square's piece along
move_rook(b, g, king_moved, to_idx) ==
    IF ~king_moved THEN b
    ELSE IF to_idx = 2 /\ g.white_has_right_to_castle_queenside
    THEN [b EXCEPT ![3] = b[0], ![0] = None]
    ELSE IF to_idx = 6 /\ g.white_has_right_to_castle_kingside
    THEN [b EXCEPT ![5] = b[7], ![7] = None]
    ELSE IF to_idx = 58 /\ g.black_has_right_to_castle_queenside
    THEN [b EXCEPT ![59] = b[56], ![56] = None]
    ELSE IF to_idx = 62 /\ g.black_has_right_to_castle_queenside
    THEN [b EXCEPT ![61] = b[63], ![63] = None]
    ELSE b

\* a revocation that does not look at the square a rook leaves
touched_corner_by_capture_only(moved_piece, captured_piece, from_pos, to_pos) ==
    IF ~is_king(moved_piece) /\ ~is_rook(moved_piece)
       /\ captured_piece # None /\ is_rook(captured_piece)
    THEN to_pos.idx
    ELSE 64

\* the rook home square whose castling right _perfom_move revokes: the rook's
\* from_pos, or the to_pos where a piece other than king and rook took a rook
\* (64: none)
touched_corner(moved_piece, captured_piece, from_pos, to_pos) ==
    IF is_rook(moved_piece) THEN from_pos.idx
    ELSE IF ~is_king(moved_piece) /\ captured_piece # None /\ is_rook(captured_piece)
    THEN to_pos.idx
    ELSE 64

\* a king whose move revokes nothing
king_of_no_colour(g, moved_piece, colour) == FALSE

\* the king part of _perfom_move: the moved piece is a king, and both rights of
\* the active colour are revoked
king_of(g, moved_piece, colour) == is_king(moved_piece) /\ g.active_colour = colour

\* an en-passant target that outlives the moves that are not a double step
en_passant_target_kept(g, moved_piece, from_pos, to_pos) ==
    IF is_pawn(moved_piece)
       /\ (to_pos.rank - from_pos.rank = 2 \/ from_pos.rank - to_pos.rank = 2)
    THEN offset(to_pos, -pawn_dir(g.active_colour), 0)
    ELSE g.en_passant_target

\* the en-passant target _perfom_move leaves: the square behind a pawn that
\* moved two ranks, NULL after any other move
en_passant_target_after(g, moved_piece, from_pos, to_pos) ==
    IF is_pawn(moved_piece)
       /\ (to_pos.rank - from_pos.rank = 2 \/ from_pos.rank - to_pos.rank = 2)
    THEN offset(to_pos, -pawn_dir(g.active_colour), 0)
    ELSE NULL

\* a half-move clock that only a pawn move resets
halfmoves_reset_by_pawn_only(g, moved_piece, captured_piece) ==
    IF is_pawn(moved_piece) THEN 0 ELSE (g.halfmoves + 1) % 256

\* Game::_perfom_move: the half-move clock, a u8, is reset by a pawn move or a
\* capture and is otherwise incremented by one
halfmoves_after(g, moved_piece, captured_piece) ==
    IF is_pawn(moved_piece) \/ captured_piece # None THEN 0 ELSE (g.halfmoves + 1) % 256

\* Game::_perfom_move after its push to the history, for positions that
\* passed valid() and a from_pos that holds a piece: the board, the counters,
\* the en-passant target and the castling rights
move_piece(g, from_pos, to_pos) ==
    LET captured_piece == g.board[to_pos.idx]
        moved_piece == g.board[from_pos.idx]
        dir == pawn_dir(g.active_colour)
        touched == touched_corner(moved_piece, captured_piece, from_pos, to_pos)
    IN  [g EXCEPT
            \* self.remove(from_pos)?; self.put(to_pos, moved_piece)?; then the
            \* pawn taken en passant and the rook of a castling move
            !.board = move_rook(
                        take_en_passant(
                            [@ EXCEPT ![from_pos.idx] = None, ![to_pos.idx] = moved_piece],
                            is_pawn(moved_piece) /\ to_pos = g.en_passant_target,
                            to_pos, dir),
                        g, is_king(moved_piece), to_pos.idx),
            !.halfmoves = halfmoves_after(g, moved_piece, captured_piece),
            !.fullmoves = IF g.active_colour = "Black" THEN @ + 1 ELSE @,
            !.en_passant_target = en_passant_target_after(g, moved_piece, from_pos, to_pos),
            !.white_has_right_to_castle_queenside =
                @ /\ ~king_of(g, moved_piece, "White") /\ touched # 0,
            !.white_has_right_to_castle_kingside =
                @ /\ ~king_of(g, moved_piece, "White") /\ touched # 7,
            !.black_has_right_to_castle_queenside =
                @ /\ ~king_of(g, moved_piece, "Black") /\ touched # 56,
            !.black_has_right_to_castle_kingside =
                @ /\ ~king_of(g, moved_piece, "Black") /\ touched # 63]

\* a move that is not recorded in the history
perfom_move_unrecorded(g, from_pos, to_pos) == move_piece(g, from_pos, to_pos)

\* Game::_perfom_move: the entry pushed to the history holds the fen of the
\* game before the move
_perfom_move(g, from_pos, to_pos) ==
    [move_piece(g, from_pos, to_pos) EXCEPT
        !.history = Append(@, [fen |-> fen(g),
                               from |-> to_string(from_pos),
                               to |-> to_string(to_pos),
                               piece_moved |-> g.board[from_pos.idx],
                               piece_captured |-> g.board[to_pos.idx]])]

(***************************************************************************)
(* Move generation and check detection                                     *)
(***************************************************************************)
\* the for-loop of Game::try_move: the square reached after `steps` offsets,
\* ErrPos where the code returns false (off the board or obstructed)
RECURSIVE try_move_walk(_, _, _, _, _, _, _)
try_move_walk(g, colour, to_pos, rank_step, file_step, i, steps) ==
    IF i > steps THEN to_pos
    ELSE LET p == offset(to_pos, rank_step, file_step)
         IN  IF p = ErrPos THEN ErrPos
             ELSE IF g.board[p.idx] # None
             THEN IF i # steps THEN ErrPos
                  ELSE IF colour = g.board[p.idx].colour THEN ErrPos
                  ELSE p
             ELSE try_move_walk(g, colour, p, rank_step, file_step, i + 1, steps)

KingSteps == {<<1, 1>>, <<1, 0>>, <<1, -1>>, <<0, 1>>, <<0, -1>>, <<-1, 1>>, <<-1, 0>>, <<-1, -1>>}

BishopSteps == {<<1, 1>>, <<1, -1>>, <<-1, 1>>, <<-1, -1>>}

RookSteps == {<<1, 0>>, <<0, 1>>, <<0, -1>>, <<-1, 0>>}

KnightSteps == {<<2, 1>>, <<2, -1>>, <<1, 2>>, <<1, -2>>, <<-1, 2>>, <<-1, -2>>, <<-2, 1>>, <<-2, -1>>}

RECURSIVE try_move(_, _, _, _, _, _)
RECURSIVE is_in_check(_, _, _)
RECURSIVE _get_possible_moves(_, _, _)
RECURSIVE slide(_, _, _, _, _, _)

\* a try_move that does not ask whether the move leaves the own king in check
try_move_unchecked(g, from_pos, rank_step, file_step, steps, recursion_order) ==
    try_move_walk(g, g.board[from_pos.idx].colour, from_pos, rank_step, file_step, 1, steps)
        # ErrPos

\* Game::try_move
try_move(g, from_pos, rank_step, file_step, steps, recursion_order) ==
    LET moved_piece == g.board[from_pos.idx]
        to_pos == try_move_walk(g, moved_piece.colour, from_pos, rank_step, file_step, 1, steps)
    IN  IF to_pos = ErrPos THEN FALSE
        ELSE IF recursion_order >= MAX_RECURSIONS THEN TRUE
        \* game_clone._perfom_move(from_pos, to_pos); nothing is_in_check reads
        \* is in the history of the clone
        ELSE LET moved == move_piece(g, from_pos, to_pos)
                 game_clone == [moved EXCEPT !.active_colour = invert(@)]
             IN  ~is_in_check(game_clone, invert(game_clone.active_colour), recursion_order)

\* Game::is_in_check
is_in_check(g, colour, recursion_order) ==
    \E king_pos \in {find_king(g, colour)} :
        /\ king_pos # ErrPos
        /\ \E i \in 0..63 :
              /\ g.board[i] # None
              /\ g.board[i].colour # colour
              /\ king_pos \in _get_possible_moves(g, new_from_idx(i), recursion_order)

\* the loop `for steps in 1..8` of a queen, bishop or rook along one direction:
\* it ends at the first step try_move refuses
slide(g, pos, rank_step, file_step, steps, recursion_order) ==
    IF steps >= 8 THEN {}
    ELSE IF try_move(g, pos, rank_step, file_step, steps, recursion_order)
    THEN {offset(pos, rank_step * steps, file_step * steps)}
         \cup slide(g, pos, rank_step, file_step, steps + 1, recursion_order)
    ELSE {}

\* a castling case that tries the arrival square only, not the square the
\* king passes over
castle_without_passing(g, right, empty_squares, king_pos, file_dir) ==
    IF right /\ (\A i \in empty_squares : g.board[i] = None)
    THEN {[kind |-> "castle",
           probes |-> {<<king_pos, 0, file_dir * 2, 1>>},
           to |-> offset(king_pos, 0, 2 * file_dir)]}
    ELSE {}

\* one castling case of _get_possible_moves: the right, the squares that must
\* be empty, the king's home square, the direction the king goes
castle(g, right, empty_squares, king_pos, file_dir) ==
    IF right /\ (\A i \in empty_squares : g.board[i] = None)
    THEN {[kind |-> "castle",
           probes |-> {<<king_pos, 0, file_dir * i, 1>> : i \in 1..2},
           to |-> offset(king_pos, 0, 2 * file_dir)]}
    ELSE {}

\* Game::_get_possible_moves, for a pos that passed valid().  The moves of a
\* king, knight or pawn are listed with the try_move calls the code makes for
\* each (probes: from, rank_step, file_step, steps) and pushed where all of
\* them return true; the pawn's is_capture test follows its try_move.
_get_possible_moves(g, pos, recursion_order_in) ==
    LET recursion_order == recursion_order_in + 1
        piece == g.board[pos.idx]
        single(S) == {[kind |-> "step",
                       probes |-> {<<pos, d[1], d[2], 1>>},
                       to |-> offset(pos, d[1], d[2])] : d \in S}
        dir == pawn_dir(piece.colour)
        is_on_first_rank == (piece.colour = "White" /\ pos.rank = 1)
                            \/ (piece.colour = "Black" /\ pos.rank = 6)
        forward == {[kind |-> "forward",
                     probes |-> {<<pos, dir, 0, i>>},
                     to |-> offset(pos, dir * i, 0)] :
                        i \in (IF is_on_first_rank THEN 1..2 ELSE 1..1)}
        diagonal == {[kind |-> "diagonal",
                      probes |-> {<<pos, dir, i, 1>>},
                      to |-> offset(pos, dir, i)] : i \in {-1, 1}}
        tried ==
            CASE piece.piece_type = "King" ->
                    single(KingSteps)
                    \cup (IF piece.colour = "White"
                          THEN castle(g, g.white_has_right_to_castle_queenside, {1, 2, 3},
                                      Position_new(0, 4), -1)
                               \cup castle(g, g.white_has_right_to_castle_kingside, {5, 6},
                                           Position_new(0, 4), 1)
                          ELSE castle(g, g.black_has_right_to_castle_queenside, {57, 58, 59},
                                      Position_new(7, 4), -1)
                               \cup castle(g, g.black_has_right_to_castle_kingside, {61, 62},
                                           Position_new(7, 4), 1))
              [] piece.piece_type = "Knight" -> single(KnightSteps)
              [] piece.piece_type = "Pawn" -> forward \cup diagonal
              [] OTHER -> {}
        directions ==
            CASE piece.piece_type = "Queen" -> KingSteps
              [] piece.piece_type = "Bishop" -> BishopSteps
              [] piece.piece_type = "Rook" -> RookSteps
              [] OTHER -> {}
    IN  IF piece = None THEN {}
        ELSE {m.to : m \in {m \in tried :
                /\ \A q \in m.probes :
                      try_move(g, q[1], q[2], q[3], q[4], recursion_order)
                /\ m.kind = "forward" => ~is_capture(g, pos, m.to)
                /\ m.kind = "diagonal" => is_capture(g, pos, m.to)}}
             \cup UNION {slide(g, pos, d[1], d[2], 1, recursion_order) : d \in directions}

\* Game::get_possible_moves
get_possible_moves(g, pos) == _get_possible_moves(g, pos, 0)

\* Game::_can_make_legal_move
_can_make_legal_move(g) ==
    \E i \in 0..63 :
        /\ g.board[i] # None
        /\ g.board[i].colour = g.active_colour
        /\ _get_possible_moves(g, new_from_idx(i), 0) # {}

(***************************************************************************)
(* Game state classification                                               *)
(***************************************************************************)
\* the loop `for idx in 0..63` of update_game_state over the two bishops:
\* TRUE where it ends the game for insufficient material
RECURSIVE same_colour_bishops(_, _, _)
same_colour_bishops(board, idx, bishop_loc) ==
    IF idx >= 63 THEN FALSE
    ELSE IF board[idx] # None /\ is_bishop(board[idx])
    THEN IF bishop_loc = 64 THEN same_colour_bishops(board, idx + 1, idx)
         ELSE IF bishop_loc % 2 = idx % 2 THEN TRUE
         ELSE same_colour_bishops(board, idx + 1, bishop_loc)
    ELSE same_colour_bishops(board, idx + 1, bishop_loc)

\* the insufficient-material test of update_game_state
insufficient_material(g) ==
    LET remaining == {i \in 0..63 : g.board[i] # None}
        remaining_pieces_count == Cardinality(remaining)
        count(t) == Cardinality({i \in remaining : g.board[i].piece_type = t})
        king_count == count("King")
        bishop_count == count("Bishop")
        knight_count == count("Knight")
    IN  /\ remaining_pieces_count < 5
        /\ \/ remaining_pieces_count = 2 /\ king_count = 2
           \/ /\ remaining_pieces_count = 3
              /\ king_count = 2
              /\ (bishop_count = 1 \/ knight_count = 1)
           \/ /\ remaining_pieces_count = 4
              /\ king_count = 2
              /\ bishop_count = 2
              /\ same_colour_bishops(g.board, 0, 64)

\* a seventy-five-move rule that ends the game one move later
seventy_five_late(g) ==
    IF ~is_checkmate(g) /\ g.halfmoves > 150
    THEN [g EXCEPT !.state = "GameOver", !.game_over_reason = "SeventyFiveMoveRule"]
    ELSE g

\* the last step of update_game_state
seventy_five(g) ==
    IF ~is_checkmate(g) /\ g.halfmoves >= 150
    THEN [g EXCEPT !.state = "GameOver", !.game_over_reason = "SeventyFiveMoveRule"]
    ELSE g

\* a classification that leaves the castling rights of a checked colour
classify_without_revoking(g, in_check, can_move) ==
    IF in_check
    THEN IF can_move
         THEN [g EXCEPT !.state = "Check"]
         ELSE [g EXCEPT !.state = "GameOver", !.game_over_reason = "Checkmate"]
    ELSE IF can_move
         THEN [g EXCEPT !.state = "InProgress"]
         ELSE [g EXCEPT !.state = "GameOver", !.game_over_reason = "Stalemate"]

\* a classification that never gives the state Check
classify_without_check(g, in_check, can_move) ==
    IF can_move
    THEN [g EXCEPT !.state = "InProgress"]
    ELSE IF in_check
    THEN [g EXCEPT !.state = "GameOver", !.game_over_reason = "Checkmate"]
    ELSE [g EXCEPT !.state = "GameOver", !.game_over_reason = "Stalemate"]

\* a classification that calls every position without a legal move a stalemate
classify_without_checkmate(g, in_check, can_move) ==
    IF ~can_move
    THEN [g EXCEPT !.state = "GameOver", !.game_over_reason = "Stalemate"]
    ELSE IF in_check
    THEN IF g.active_colour = "White"
         THEN [g EXCEPT !.state = "Check",
                        !.white_has_right_to_castle_queenside = FALSE,
                        !.white_has_right_to_castle_kingside = FALSE]
         ELSE [g EXCEPT !.state = "Check",
                        !.black_has_right_to_castle_queenside = FALSE,
                        !.black_has_right_to_castle_kingside = FALSE]
    ELSE [g EXCEPT !.state = "InProgress"]

\* the check, checkmate, stalemate and in-progress part of update_game_state,
\* given what is_in_check and _can_make_legal_move return
classify(g, in_check, can_move) ==
    IF in_check
    THEN IF can_move
         THEN IF g.active_colour = "White"
              THEN [g EXCEPT !.state = "Check",
                             !.white_has_right_to_castle_queenside = FALSE,
                             !.white_has_right_to_castle_kingside = FALSE]
              ELSE [g EXCEPT !.state = "Check",
                             !.black_has_right_to_castle_queenside = FALSE,
                             !.black_has_right_to_castle_kingside = FALSE]
         ELSE [g EXCEPT !.state = "GameOver", !.game_over_reason = "Checkmate"]
    ELSE IF can_move
         THEN [g EXCEPT !.state = "InProgress"]
         ELSE [g EXCEPT !.state = "GameOver", !.game_over_reason = "Stalemate"]

\* update_game_state once the active colour is inverted
update_for_active(g) ==
    IF is_fivefold_repetition(g)
    THEN [g EXCEPT !.state = "GameOver", !.game_over_reason = "FivefoldRepetitionRule"]
    ELSE IF insufficient_material(g)
    THEN [g EXCEPT !.state = "GameOver", !.game_over_reason = "InsufficientMaterial"]
    ELSE seventy_five(classify(g, is_in_check(g, g.active_colour, 1),
                               _can_make_legal_move(g)))

\* Game::update_game_state (never called on a game that is over)
update_game_state(g) ==
    IF find_pawn_to_promote(g) # ErrPos
    THEN [g EXCEPT !.state = "WaitingOnPromotionChoice"]
    ELSE update_for_active([g EXCEPT !.active_colour = invert(@)])

(***************************************************************************)
(* The calls that change a game.  Each gives the game the call leaves and  *)
(* what it returns: ok = TRUE and the state for Ok(state), ok = FALSE and  *)
(* the kind of message for Err(message).                                   *)
(***************************************************************************)
Ok(g) == [ok |-> TRUE, game |-> g, ret |-> g.state]

Err(g, message) == [ok |-> FALSE, game |-> g, ret |-> message]

\* a validation that does not look at the colour of the piece
make_move_pos_error_any_colour(g, from_pos, to_pos, possible_moves) ==
    IF ~(g.state = "InProgress" \/ g.state = "Check") THEN "WrongState"
    ELSE IF ~valid(from_pos) THEN "InvalidPosition"
    ELSE IF ~valid(to_pos) THEN "InvalidPosition"
    ELSE IF g.board[from_pos.idx] = None THEN "NoPiece"
    ELSE IF to_pos \notin possible_moves THEN "IllegalMove"
    ELSE "None"

\* a validation that does not look at the state of the game
make_move_pos_error_any_state(g, from_pos, to_pos, possible_moves) ==
    IF ~valid(from_pos) THEN "InvalidPosition"
    ELSE IF ~valid(to_pos) THEN "InvalidPosition"
    ELSE IF g.board[from_pos.idx] = None THEN "NoPiece"
    ELSE IF g.board[from_pos.idx].colour # g.active_colour THEN "NotYourTurn"
    ELSE IF to_pos \notin possible_moves THEN "IllegalMove"
    ELSE "None"

\* the error returns of Game::make_move_pos, in the order of the code, once
\* Game::get_possible_moves(from_pos) is known: the kind of the message
\* returned, "None" where the code goes on to move the piece
make_move_pos_error(g, from_pos, to_pos, possible_moves) ==
    IF ~(g.state = "InProgress" \/ g.state = "Check") THEN "WrongState"
    ELSE IF ~valid(from_pos) THEN "InvalidPosition"
    ELSE IF ~valid(to_pos) THEN "InvalidPosition"
    ELSE IF g.board[from_pos.idx] = None THEN "NoPiece"
    ELSE IF g.board[from_pos.idx].colour # g.active_colour THEN "NotYourTurn"
    ELSE IF to_pos \notin possible_moves THEN "IllegalMove"
    ELSE "None"

\* a make_move_pos that moves the piece before it looks at possible_moves
make_move_pos_moving_first(g, from_pos, to_pos, possible_moves) ==
    IF make_move_pos_error(g, from_pos, to_pos, possible_moves) = "None"
    THEN Ok(update_game_state(_perfom_move(g, from_pos, to_pos)))
    ELSE IF make_move_pos_error(g, from_pos, to_pos, possible_moves) = "IllegalMove"
    THEN Err(_perfom_move(g, from_pos, to_pos), "IllegalMove")
    ELSE Err(g, make_move_pos_error(g, from_pos, to_pos, possible_moves))

\* Game::make_move_pos once Game::get_possible_moves(from_pos) is known
make_move_pos_with(g, from_pos, to_pos, possible_moves) ==
    IF make_move_pos_error(g, from_pos, to_pos, possible_moves) = "None"
    THEN Ok(update_game_state(_perfom_move(g, from_pos, to_pos)))
    ELSE Err(g, make_move_pos_error(g, from_pos, to_pos, possible_moves))

\* Game::make_move_pos
make_move_pos(g, from_pos, to_pos) ==
    make_move_pos_with(g, from_pos, to_pos, get_possible_moves(g, from_pos))

\* Game::make_move
make_move(g, from_str, to_str) ==
    IF parse_str(from_str) = ErrPos THEN Err(g, "InvalidInput")
    ELSE IF parse_str(to_str) = ErrPos THEN Err(g, "InvalidInput")
    ELSE make_move_pos(g, parse_str(from_str), parse_str(to_str))

\* a set_promotion that leaves the state to the next call
set_promotion_without_update(g, piece_type) ==
    IF g.state # "WaitingOnPromotionChoice" THEN Err(g, "WrongState")
    ELSE IF piece_type = "King" \/ piece_type = "Pawn" THEN Err(g, "NotPromotable")
    ELSE IF find_pawn_to_promote(g) = ErrPos THEN Err(g, "NoPawnToPromote")
    ELSE Ok([g EXCEPT !.board[find_pawn_to_promote(g).idx] =
                            Piece(piece_type, g.active_colour),
                      !.active_colour = invert(@)])

\* a set_promotion that takes any piece type
set_promotion_to_any(g, piece_type) ==
    IF g.state # "WaitingOnPromotionChoice" THEN Err(g, "WrongState")
    ELSE IF find_pawn_to_promote(g) = ErrPos THEN Err(g, "NoPawnToPromote")
    ELSE Ok(update_game_state(
                [g EXCEPT !.board[find_pawn_to_promote(g).idx] =
                                Piece(piece_type, g.active_colour),
                          !.active_colour = invert(@)]))

\* Game::set_promotion
set_promotion(g, piece_type) ==
    IF g.state # "WaitingOnPromotionChoice" THEN Err(g, "WrongState")
    ELSE IF piece_type = "King" \/ piece_type = "Pawn" THEN Err(g, "NotPromotable")
    ELSE IF find_pawn_to_promote(g) = ErrPos THEN Err(g, "NoPawnToPromote")
    ELSE Ok(update_game_state(
                [g EXCEPT !.board[find_pawn_to_promote(g).idx] =
                                Piece(piece_type, g.active_colour),
                          !.active_colour = invert(@)]))

\* a submit_draw that ends the game without giving the reason
submit_draw_without_reason(g) == [g EXCEPT !.state = "GameOver"]

\* a submit_draw that also clears the en-passant target and the clock
submit_draw_clearing(g) ==
    [g EXCEPT !.state = "GameOver", !.game_over_reason = "ManualDraw",
              !.en_passant_target = NULL, !.halfmoves = 0]

\* Game::submit_draw
submit_draw(g) == [g EXCEPT !.state = "GameOver", !.game_over_reason = "ManualDraw"]

\* a put that gives the right of a corner back with the rook placed on it
put_restoring_right(g, pos, piece) ==
    IF ~valid(pos) THEN Err(g, "InvalidPosition")
    ELSE IF is_king(piece) /\ find_king(g, piece.colour) # ErrPos
    THEN Err(g, "SecondKing")
    ELSE [ok |-> TRUE,
          game |-> [g EXCEPT !.board[pos.idx] = piece,
                             !.white_has_right_to_castle_queenside =
                                 @ \/ (pos.idx = 0 /\ piece = Piece("Rook", "White")),
                             !.black_has_right_to_castle_kingside =
                                 @ \/ (pos.idx = 63 /\ piece = Piece("Rook", "Black"))],
          ret |-> "None"]

\* Game::put
put(g, pos, piece) ==
    IF ~valid(pos) THEN Err(g, "InvalidPosition")
    ELSE IF is_king(piece) /\ find_king(g, piece.colour) # ErrPos
    THEN Err(g, "SecondKing")
    ELSE [ok |-> TRUE, game |-> [g EXCEPT !.board[pos.idx] = piece], ret |-> "None"]

\* Game::remove: the result holds the piece taken off the board
remove(g, pos) ==
    IF ~valid(pos) THEN Err(g, "InvalidPosition")
    ELSE [ok |-> TRUE, game |-> [g EXCEPT !.board[pos.idx] = None],
          ret |-> g.board[pos.idx]]

(***************************************************************************)
(* The caller                                                              *)
(***************************************************************************)
\* a move as make_move takes it: the two strings of "e2 e4"
Mv(a, b, c, d) == <<(<<a, b>>), (<<c, d>>)>>

\* src/src/lib_tests.rs game_enters_checkmate
LineCheckmate ==
    <<Mv("e","2","e","3"), Mv("e","7","e","6"), Mv("d","1","f","3"), Mv("e","6","e","5"),
      Mv("f","1","c","4"), Mv("e","5","e","4"), Mv("f","3","f","7")>>

\* src/src/lib_tests.rs game_enters_waitingonpromitionchoice
LinePromotion ==
    <<Mv("e","2","e","3"), Mv("d","7","d","6"), Mv("e","3","e","4"), Mv("d","6","d","5"),
      Mv("e","4","d","5"), Mv("e","8","d","7"), Mv("d","5","d","6"), Mv("d","7","c","6"),
      Mv("d","6","d","7"), Mv("d","8","e","8"), Mv("d","7","d","8")>>

\* a white pawn takes its way to h8
LinePromotionH ==
    <<Mv("h","2","h","4"), Mv("g","7","g","5"), Mv("h","4","g","5"), Mv("h","7","h","6"),
      Mv("g","5","h","6"), Mv("f","8","g","7"), Mv("h","6","g","7"), Mv("g","8","f","6"),
      Mv("g","7","h","8")>>

\* a knight check on d3 that only the queen on d1 can answer, by taking on d3
LineKnightCheck ==
    <<Mv("d","2","d","4"), Mv("g","7","g","6"), Mv("e","2","e","4"), Mv("f","8","h","6"),
      Mv("c","2","c","3"), Mv("b","8","c","6"), Mv("g","1","e","2"), Mv("c","6","b","4"),
      Mv("a","2","a","3"), Mv("b","4","d","3")>>

\* src/src/lib_tests.rs game_allows_kingside_castling
LineCastling ==
    <<Mv("g","1","f","3"), Mv("g","8","f","6"), Mv("e","2","e","4"), Mv("e","7","e","5"),
      Mv("f","1","e","2"), Mv("f","8","e","7"), Mv("e","1","g","1"), Mv("e","8","g","8")>>

\* src/src/lib_tests.rs game_allows_en_passant
LineEnPassant ==
    <<Mv("e","2","e","4"), Mv("a","7","a","6"), Mv("e","4","e","5"), Mv("d","7","d","5"),
      Mv("e","5","d","6")>>

\* src/src/lib_tests.rs game_enters_check
LineCheck ==
    <<Mv("e","2","e","3"), Mv("e","7","e","6"), Mv("d","1","g","4"), Mv("e","6","e","5"),
      Mv("g","4","e","6")>>

\* Black moves the rook of a8 and then castles on the king's side
LineCastleAfterRook ==
    <<Mv("g","1","f","3"), Mv("g","8","f","6"), Mv("e","2","e","3"), Mv("e","7","e","6"),
      Mv("f","1","e","2"), Mv("f","8","e","7"), Mv("a","2","a","3"), Mv("a","7","a","6"),
      Mv("b","2","b","3"), Mv("a","8","a","7"), Mv("c","2","c","3"), Mv("e","8","g","8")>>

\* the rook of a1 takes the rook of a8
LineRookTakesRook ==
    <<Mv("a","2","a","4"), Mv("b","7","b","5"), Mv("a","4","b","5"), Mv("a","7","a","6"),
      Mv("a","1","a","6"), Mv("c","8","b","7"), Mv("a","6","a","8")>>

\* src/src/lib_tests.rs game_disallows_kingside_castling_when_king_checked_in_passing
LinePassingCheck ==
    <<Mv("g","1","f","3"), Mv("g","8","f","6"), Mv("e","2","e","4"), Mv("e","7","e","5"),
      Mv("f","1","e","2"), Mv("f","8","e","7"), Mv("b","2","b","3"), Mv("b","7","b","6"),
      Mv("c","1","a","3"), Mv("c","8","a","6"), Mv("a","3","e","7"), Mv("a","6","e","2")>>

\* the double step d7 d5 beside the pawn of e5, and one move of each side
\* after it
LineEnPassantLate ==
    <<Mv("e","2","e","4"), Mv("a","7","a","6"), Mv("e","4","e","5"), Mv("d","7","d","5"),
      Mv("h","2","h","3"), Mv("h","7","h","6")>>

\* the four moves the kings shuffle with in src/src/lib_tests.rs
\* _bug_avoidant_test_threefold_and_fivefold_repetition_rules
KingShuffle ==
    <<Mv("e","1","e","2"), Mv("e","8","e","7"), Mv("e","2","e","1"), Mv("e","7","e","8")>>

\* src/src/lib_tests.rs _bug_avoidant_test_threefold_and_fivefold_repetition_rules
LineFivefold ==
    <<Mv("e","2","e","3"), Mv("e","7","e","6")>>
        \o KingShuffle \o KingShuffle \o KingShuffle \o KingShuffle
        \o <<Mv("e","1","e","2"), Mv("e","8","e","7")>>

\* the four moves the knights shuffle with, Black first
KnightShuffle ==
    <<Mv("g","8","f","6"), Mv("g","1","f","3"), Mv("f","6","g","8"), Mv("f","3","g","1")>>

\* the shuffle of the repetition test after a double step of the b-pawn past
\* the black pawn on a4
LineFivefoldEnPassant ==
    <<Mv("h","2","h","3"), Mv("a","7","a","5"), Mv("h","3","h","4"), Mv("a","5","a","4"),
      Mv("b","2","b","4")>>
        \o KnightShuffle \o KnightShuffle \o KnightShuffle \o KnightShuffle

\* the rook of h1 and the black king leave their squares and come back
LineRookAndKingReturn ==
    <<Mv("g","1","f","3"), Mv("g","8","f","6"), Mv("e","2","e","3"), Mv("e","7","e","6"),
      Mv("h","1","g","1"), Mv("e","8","e","7"), Mv("g","1","h","1"), Mv("e","7","e","8")>>

\* the white king and the rook of h8 leave their squares and come back
LineKingAndRookReturn ==
    <<Mv("g","1","f","3"), Mv("g","8","f","6"), Mv("e","2","e","3"), Mv("e","7","e","6"),
      Mv("e","1","e","2"), Mv("h","8","g","8"), Mv("e","2","e","1"), Mv("g","8","h","8")>>

\* the four moves a white knight goes round with, from b1 and back
KnightRound ==
    <<Mv("b","1","a","3"), Mv("a","3","b","5"), Mv("b","5","c","3"), Mv("c","3","b","1")>>

\* the five moves a black rook goes round with, from a6 and back
RookRound ==
    <<Mv("a","6","b","6"), Mv("b","6","c","6"), Mv("c","6","d","6"), Mv("d","6","e","6"),
      Mv("e","6","a","6")>>

\* the n-th of the moves without a pawn move or a capture: the knight and the
\* rook go round, so that no position comes a fifth time
QuietMove(n) ==
    IF n % 2 = 1 THEN KnightRound[(((n - 1) \div 2) % 4) + 1]
    ELSE IF n = 2 THEN Mv("a","8","a","6")
    ELSE RookRound[(((n - 4) \div 2) % 5) + 1]

\* four pawn moves and 149 moves without a pawn move or a capture, the game
\* of src/src/lib_tests.rs test_50_and_75_move_rules played without a fivefold
\* repetition
LineQuiet ==
    <<Mv("f","2","f","3"), Mv("e","7","e","5"), Mv("g","2","g","4"), Mv("a","7","a","5")>>
        \o [n \in 1..149 |-> QuietMove(n)]

\* the same with the queen's mate on h4 as the 150th move
LineSeventyFive == Append(LineQuiet, Mv("d","8","h","4"))

Lines == <<LineCheckmate, LinePromotion, LinePromotionH, LineKnightCheck,
           LineCastling, LineEnPassant, LineCheck, LineCastleAfterRook,
           LineRookTakesRook, LinePassingCheck, LineEnPassantLate,
           LineFivefold, LineFivefoldEnPassant, LineRookAndKingReturn,
           LineKingAndRookReturn, LineSeventyFive, LineQuiet, <<>>, <<>>, <<>>>>

\* a call that arranges the board: remove(pos) where the piece is None,
\* put(pos, piece) otherwise
Edit(idx, piece) == [pos |-> new_from_idx(idx), piece |-> piece]

\* remove called for every square but those of keep, as the loops of
\* src/src/lib_tests.rs test_insufficient_material clear the board
ClearBut(keep) ==
    [k \in 1..(64 - Cardinality(keep)) |->
        Edit(SelectSeq([i \in 1..64 |-> i - 1], LAMBDA i : i \notin keep)[k], None)]

\* the white king on e1 against the black king on e8, the black queen on d8
\* and a black pawn on g3
SetupStalemate == ClearBut({4, 60, 59}) \o <<Edit(22, Piece("Pawn", "Black"))>>

\* the two kings on e1 and e8
SetupKings == ClearBut({4, 60})

\* the two kings and the bishops of c1 and f8
SetupBishops == ClearBut({4, 60, 2, 61})

\* the two kings, the knight of b1 and a black pawn on d2
SetupKnight == ClearBut({4, 60, 1}) \o <<Edit(11, Piece("Pawn", "Black"))>>

\* the calls that arrange the board after the moves of each recorded game:
\* none for the games above, one setup for each of the last four
Arranged == <<SetupStalemate, SetupKings, SetupBishops, SetupKnight>>

Setups == [i \in 1..(Len(Lines) - Len(Arranged)) |-> <<>>] \o Arranged

\* the calls of a recorded game, moves and arranging calls
Calls(i) == Len(Lines[i]) + Len(Setups[i])

\* the caller leaves its recorded game at one of the last MaxBack + 1
\* positions of it
MaxBack == 2

\* the positions a caller passes: the 64 squares, Position::NULL, and a
\* position beyond the last rank
BeyondBoard == [rank |-> 8, file |-> 0, idx |-> 64]

InputPositions == {new_from_idx(i) : i \in 0..63} \cup {NULL, BeyondBoard}

\* strings a caller passes that are not the squares of a recorded game
InputStrings ==
    {<<"E", "2">>, <<" ", "e", "4", " ">>, <<"e">>, <<"e", "2", "2">>, <<>>,
     <<"i", "1">>, <<"a", "9">>, <<"a", "0">>}

\* the recorded games of play: check, checkmate, promotion, castling and en
\* passant
GamesOfPlay ==
    {i \in 1..Len(Lines) :
        Lines[i] \in {LineCheckmate, LinePromotion, LinePromotionH, LineKnightCheck,
                      LineCastling, LineEnPassant, LineCheck}}

\* the recorded games about the castling rights and the en-passant target
GamesOfRights ==
    {i \in 1..Len(Lines) :
        Lines[i] \in {LineCastling, LineCastleAfterRook, LineRookTakesRook,
                      LinePassingCheck, LineEnPassantLate}}

Init ==
    /\ game = Game_new
    /\ prev = Game_new
    /\ last = [op |-> "new", ok |-> TRUE, ret |-> "InProgress"]
    /\ line \in GamesOfPlay
    /\ step = 0
    /\ left = FALSE

\* a new game of a caller that replays one of the games about rights
InitRights ==
    /\ game = Game_new
    /\ prev = Game_new
    /\ last = [op |-> "new", ok |-> TRUE, ret |-> "InProgress"]
    /\ line \in GamesOfRights
    /\ step = 0
    /\ left = FALSE

\* the recorded games that come back to positions they have been in
GamesOfRepetition ==
    {i \in 1..Len(Lines) :
        Lines[i] \in {LineFivefold, LineFivefoldEnPassant, LineRookAndKingReturn,
                      LineKingAndRookReturn}}

\* a new game of a caller that replays one of the games with repetitions
InitRepetition ==
    /\ game = Game_new
    /\ prev = Game_new
    /\ last = [op |-> "new", ok |-> TRUE, ret |-> "InProgress"]
    /\ line \in GamesOfRepetition
    /\ step = 0
    /\ left = FALSE

\* the recorded games with one hundred and fifty moves on the clock and those
\* on a board the caller arranges
GamesArranged ==
    {i \in 1..Len(Lines) : Lines[i] = LineSeventyFive \/ Setups[i] # <<>>}

\* a new game of a caller that replays one of these games
InitArranged ==
    /\ game = Game_new
    /\ prev = Game_new
    /\ last = [op |-> "new", ok |-> TRUE, ret |-> "InProgress"]
    /\ line \in GamesArranged
    /\ step = 0
    /\ left = FALSE

\* the caller makes one call of its own on a game that takes moves, and then
\* resolves the promotion or calls once more if the game is over
MayCall ==
    \/ ~left /\ step + MaxBack >= Calls(line)
    \/ game.state \in {"WaitingOnPromotionChoice", "GameOver"} /\ last.ok

Leaving == left \/ game.state \in {"InProgress", "Check"}

\* the caller plays the next move of its recorded game
PlayLine ==
    /\ ~left
    /\ step < Len(Lines[line])
    /\ \E r \in {make_move(game, Lines[line][step + 1][1], Lines[line][step + 1][2])} :
           /\ game' = r.game
           /\ prev' = game
           /\ last' = [op |-> "make_move", ok |-> r.ok, ret |-> r.ret]
    /\ step' = step + 1
    /\ UNCHANGED <<line, left>>

MakeMove(from_str, to_str) ==
    /\ MayCall
    /\ \E r \in {make_move(game, from_str, to_str)} :
           /\ game' = r.game
           /\ prev' = game
           /\ last' = [op |-> "make_move", ok |-> r.ok, ret |-> r.ret]
    /\ left' = Leaving
    /\ UNCHANGED <<line, step>>

\* the destinations the caller tries from from_pos: every position for a piece
\* it may move, a few for any other from_pos and when the game takes no moves
Destinations(from_pos) ==
    IF /\ game.state \in {"InProgress", "Check"}
       /\ valid(from_pos)
       /\ game.board[from_pos.idx].colour = game.active_colour
    THEN InputPositions
    ELSE {Position_new(3, 4), Position_new(5, 2), NULL, BeyondBoard}

MakeMovePos ==
    /\ MayCall
    /\ \E from_pos \in InputPositions :
          \E possible_moves \in {IF valid(from_pos) THEN get_possible_moves(game, from_pos)
                                  ELSE {}} :
             \E to_pos \in Destinations(from_pos) :
                \E r \in {make_move_pos_with(game, from_pos, to_pos, possible_moves)} :
                   /\ game' = r.game
                   /\ prev' = game
                   /\ last' = [op |-> "make_move_pos", ok |-> r.ok, ret |-> r.ret]
    /\ left' = Leaving
    /\ UNCHANGED <<line, step>>

SetPromotion(piece_type) ==
    /\ MayCall
    /\ \E r \in {set_promotion(game, piece_type)} :
           /\ game' = r.game
           /\ prev' = game
           /\ last' = [op |-> "set_promotion", ok |-> r.ok, ret |-> r.ret]
    /\ left' = Leaving
    /\ UNCHANGED <<line, step>>

SubmitDraw ==
    /\ MayCall
    /\ game' = submit_draw(game)
    /\ prev' = game
    /\ last' = [op |-> "submit_draw", ok |-> TRUE, ret |-> "None"]
    /\ left' = Leaving
    /\ UNCHANGED <<line, step>>

\* a Position a caller builds from its public fields: file 8 of rank 0, with
\* the idx that rank and file give
WideFile == [rank |-> 0, file |-> 8, idx |-> 8]

\* the positions and pieces a caller edits the board with
EditPositions ==
    {Position_new(0, 0), Position_new(7, 7), Position_new(7, 4), NULL, WideFile}

EditPieces == {Piece("Rook", "White"), Piece("Rook", "Black"), Piece("King", "Black")}

\* the caller edits the board once, right after the last move of its recorded
\* game, and goes on with its own calls
MayEdit == ~left /\ step = Len(Lines[line]) /\ last.op = "make_move" /\ last.ok

Put(pos, piece) ==
    /\ MayEdit
    /\ \E r \in {put(game, pos, piece)} :
           /\ game' = r.game
           /\ prev' = game
           /\ last' = [op |-> "put", ok |-> r.ok, ret |-> r.ret]
    /\ UNCHANGED <<line, step, left>>

Remove(pos) ==
    /\ MayEdit
    /\ \E r \in {remove(game, pos)} :
           /\ game' = r.game
           /\ prev' = game
           /\ last' = [op |-> "remove", ok |-> r.ok,
                       ret |-> IF r.ok THEN r.ret.piece_type ELSE r.ret]
    /\ UNCHANGED <<line, step, left>>

Next ==
    \/ PlayLine
    \/ \E from_str \in InputStrings, to_str \in InputStrings : MakeMove(from_str, to_str)
    \/ MakeMovePos
    \/ \E piece_type \in PieceTypes : SetPromotion(piece_type)
    \/ SubmitDraw

Spec == Init /\ [][Next]_vars

SpecRights == InitRights /\ [][Next]_vars

SpecRepetition == InitRepetition /\ [][Next]_vars

\* the caller makes the next arranging call of its recorded game
Arrange ==
    /\ ~left
    /\ step >= Len(Lines[line])
    /\ step < Calls(line)
    /\ \E e \in {Setups[line][step - Len(Lines[line]) + 1]} :
          \E r \in {IF e.piece = None THEN remove(game, e.pos)
                     ELSE put(game, e.pos, e.piece)} :
             /\ game' = r.game
             /\ prev' = game
             /\ last' = [op |-> IF e.piece = None THEN "remove" ELSE "put",
                         ok |-> r.ok,
                         ret |-> IF e.piece = None /\ r.ok THEN r.ret.piece_type ELSE r.ret]
    /\ step' = step + 1
    /\ UNCHANGED <<line, left>>

\* the calls of a caller that arranges the board
NextArranged ==
    \/ Next
    \/ Arrange

SpecArranged == InitArranged /\ [][NextArranged]_vars

\* the calls of a caller that also edits the board
NextEdit ==
    \/ Next
    \/ \E pos \in EditPositions, piece \in EditPieces : Put(pos, piece)
    \/ \E pos \in EditPositions : Remove(pos)

SpecEdit == InitRights /\ [][NextEdit]_vars

(***************************************************************************)
(* The rules of chess the properties are stated against, written on rank   *)
(* and file numbers and independent of the engine's move generation.       *)
(***************************************************************************)
Abs(x) == IF x < 0 THEN -x ELSE x

Sign(x) == IF x < 0 THEN -1 ELSE IF x > 0 THEN 1 ELSE 0

RankOf(i) == i \div 8

FileOf(i) == i % 8

Forward(colour) == IF colour = "White" THEN 1 ELSE -1

\* the squares strictly between a and b, two squares of one rank, file or
\* diagonal
Between(a, b) ==
    LET dr == RankOf(b) - RankOf(a)
        df == FileOf(b) - FileOf(a)
        n == IF Abs(dr) > Abs(df) THEN Abs(dr) ELSE Abs(df)
    IN  {(RankOf(a) + k * Sign(dr)) * 8 + FileOf(a) + k * Sign(df) : k \in 1..(n - 1)}

\* a and b lie on one rank or file / on one diagonal, with nothing between
RookLine(board, a, b) ==
    /\ a # b
    /\ RankOf(a) = RankOf(b) \/ FileOf(a) = FileOf(b)
    /\ \A s \in Between(a, b) : board[s] = None

BishopLine(board, a, b) ==
    /\ a # b
    /\ Abs(RankOf(a) - RankOf(b)) = Abs(FileOf(a) - FileOf(b))
    /\ \A s \in Between(a, b) : board[s] = None

\* a and b are a knight's jump / a king's step apart
KnightJump(a, b) ==
    {Abs(RankOf(a) - RankOf(b)), Abs(FileOf(a) - FileOf(b))} = {1, 2}

KingStep(a, b) ==
    a # b /\ Abs(RankOf(a) - RankOf(b)) <= 1 /\ Abs(FileOf(a) - FileOf(b)) <= 1

\* the piece on square a attacks square b
Attacks(board, a, b) ==
    LET t == board[a].piece_type
    IN  CASE t = "Pawn" -> /\ RankOf(b) - RankOf(a) = Forward(board[a].colour)
                           /\ Abs(FileOf(b) - FileOf(a)) = 1
          [] t = "Knight" -> KnightJump(a, b)
          [] t = "King" -> KingStep(a, b)
          [] t = "Rook" -> RookLine(board, a, b)
          [] t = "Bishop" -> BishopLine(board, a, b)
          [] t = "Queen" -> RookLine(board, a, b) \/ BishopLine(board, a, b)
          [] OTHER -> FALSE

\* square b is attacked by a piece that is not of the given colour
AttackedSquare(board, b, colour) ==
    \E a \in 0..63 :
        board[a] # None /\ board[a].colour # colour /\ Attacks(board, a, b)

\* the king of the given colour is attacked
KingAttacked(board, colour) ==
    \E k \in 0..63 : board[k] = Piece("King", colour) /\ AttackedSquare(board, k, colour)

\* castling of the king on square a towards file_dir, by the rules: right
\* held, king and rook at home, nothing between them, and the king neither in
\* check nor passing or reaching an attacked square
MayCastle(g, a, file_dir) ==
    LET colour == g.board[a].colour
        home == IF colour = "White" THEN 4 ELSE 60
        corner == IF file_dir = 1 THEN home + 3 ELSE home - 4
        right == IF colour = "White"
                 THEN (IF file_dir = 1 THEN g.white_has_right_to_castle_kingside
                       ELSE g.white_has_right_to_castle_queenside)
                 ELSE (IF file_dir = 1 THEN g.black_has_right_to_castle_kingside
                       ELSE g.black_has_right_to_castle_queenside)
    IN  /\ right
        /\ a = home
        /\ g.board[corner] = Piece("Rook", colour)
        /\ \A s \in Between(home, corner) : g.board[s] = None
        /\ \A s \in {home, home + file_dir, home + 2 * file_dir} :
              ~AttackedSquare(g.board, s, colour)

\* the squares the piece on square a may go to by its movement, obstruction
\* and capture rules, king safety aside
PseudoLegal(g, a) ==
    LET p == g.board[a]
        fw == Forward(p.colour)
        start == IF p.colour = "White" THEN 1 ELSE 6
        free(b) == g.board[b] = None
        enemy(b) == g.board[b] # None /\ g.board[b].colour # p.colour
        open(b) == g.board[b] = None \/ g.board[b].colour # p.colour
    IN  CASE p.piece_type = "Pawn" ->
                {b \in 0..63 :
                    \/ b = a + 8 * fw /\ free(b)
                    \/ /\ b = a + 16 * fw
                       /\ RankOf(a) = start
                       /\ free(a + 8 * fw)
                       /\ free(b)
                    \/ /\ RankOf(b) - RankOf(a) = fw
                       /\ Abs(FileOf(b) - FileOf(a)) = 1
                       /\ enemy(b) \/ (free(b) /\ b = g.en_passant_target.idx)}
          [] p.piece_type = "King" ->
                {b \in 0..63 : KingStep(a, b) /\ open(b)}
                \cup {a + 2 * d : d \in {d \in {-1, 1} : MayCastle(g, a, d)}}
          [] OTHER -> {b \in 0..63 : open(b) /\ Attacks(g.board, a, b)}

\* the board after the piece on square a went to square b: the pawn taken en
\* passant leaves, the rook of a castling king crosses it
Moved(g, a, b) ==
    LET p == g.board[a]
        b1 == [g.board EXCEPT ![a] = None, ![b] = p]
    IN  IF p.piece_type = "Pawn" /\ FileOf(a) # FileOf(b) /\ g.board[b] = None
        THEN [b1 EXCEPT ![RankOf(a) * 8 + FileOf(b)] = None]
        ELSE IF p.piece_type = "King" /\ b - a = 2
        THEN [b1 EXCEPT ![a + 3] = None, ![a + 1] = g.board[a + 3]]
        ELSE IF p.piece_type = "King" /\ a - b = 2
        THEN [b1 EXCEPT ![a - 4] = None, ![a - 1] = g.board[a - 4]]
        ELSE b1

\* the legal moves of the piece on square a: the pseudo-legal ones that do
\* not leave its own king attacked
Legal(g, a) ==
    {b \in PseudoLegal(g, a) : ~KingAttacked(Moved(g, a, b), g.board[a].colour)}

\* the given colour has a legal move
HasLegalMove(g, colour) ==
    \E a \in 0..63 :
        g.board[a] # None /\ g.board[a].colour = colour /\ Legal(g, a) # {}

\* the squares get_possible_moves returns for the piece on square a
Possible(g, a) == {pos.idx : pos \in get_possible_moves(g, new_from_idx(a))}

\* the game takes moves
Playing(g) == g.state \in {"InProgress", "Check"}

\* the last call was a make_move or make_move_pos / one that was accepted
MoveCalled == last.op \in {"make_move", "make_move_pos"}

MoveAccepted == MoveCalled /\ last.ok

(***************************************************************************)
(* Properties                                                              *)
(***************************************************************************)
\* C1: a make_move or make_move_pos call that returns an error leaves the
\* board, active colour, state, game-over reason, castling rights, en-passant
\* target, both counters and the history as they were before the call.
C1_RejectedMoveChangesNothing ==
    (MoveCalled /\ ~last.ok) => game = prev

\* a destination outside the legal set was rejected on a game that takes moves
C1_Witness ==
    /\ last.op = "make_move_pos"
    /\ ~last.ok
    /\ last.ret = "IllegalMove"
    /\ Playing(prev)

\* the state takes moves, from_pos is valid and holds a piece of the active
\* colour
Movable(g, from_pos) ==
    /\ Playing(g)
    /\ valid(from_pos)
    /\ g.board[from_pos.idx] # None
    /\ g.board[from_pos.idx].colour = g.active_colour

\* C2: wherever the caller may call it, make_move_pos(from, to) returns Ok
\* exactly when the state is InProgress or Check, both positions are valid,
\* the source square holds a piece of the active colour and `to` is in
\* get_possible_moves(from); otherwise it returns an error.
C2_AcceptedExactlyWhenLegal ==
    MayCall =>
        \A from_pos \in InputPositions :
            \A possible_moves \in {IF valid(from_pos) THEN get_possible_moves(game, from_pos)
                                    ELSE {}} :
                \A movable \in {Movable(game, from_pos)} :
                    \A to_pos \in InputPositions :
                        (make_move_pos_error(game, from_pos, to_pos, possible_moves) = "None")
                            <=> (movable /\ valid(to_pos) /\ to_pos \in possible_moves)

\* make_move_pos accepted a move that answers a check
C2_Witness ==
    last.op = "make_move_pos" /\ last.ok /\ prev.state = "Check"

\* C3: after an accepted move the king of the colour that moved is not
\* attacked, and no destination get_possible_moves returns for a piece of the
\* active colour leaves that colour's king attacked once the move is made.
C3_OwnKingNeverLeftAttacked ==
    /\ MoveAccepted => ~KingAttacked(game.board, prev.active_colour)
    /\ \A a \in 0..63 :
          (game.board[a] # None /\ game.board[a].colour = game.active_colour) =>
              \A to_pos \in get_possible_moves(game, new_from_idx(a)) :
                  ~KingAttacked(move_piece(game, new_from_idx(a), to_pos).board,
                                game.active_colour)

\* White castled kingside: the king went from e1 to g1 in an accepted move
C3_Witness ==
    /\ MoveAccepted
    /\ prev.board[4] = Piece("King", "White")
    /\ game.board[6] = Piece("King", "White")
    /\ game.board[5] = Piece("Rook", "White")

\* every square of a piece of the active colour
ActivePiece(g, a) == g.board[a] # None /\ g.board[a].colour = g.active_colour

\* C4: for every piece of the active colour get_possible_moves returns every
\* legal destination, for a queen, rook or bishop also the squares of a ray
\* that lie beyond one the piece may not go to.
C4_EveryLegalMoveReturned ==
    \A a \in 0..63 : ActivePiece(game, a) => Legal(game, a) \subseteq Possible(game, a)

\* C5: the game is over by Checkmate or Stalemate only when the side to move
\* has no legal move, by Checkmate only with its king attacked, by Stalemate
\* only with its king not attacked.
C5_MateOnlyWithoutLegalMove ==
    (game.state = "GameOver" /\ game.game_over_reason \in {"Checkmate", "Stalemate"}) =>
        /\ ~HasLegalMove(game, game.active_colour)
        /\ game.game_over_reason = "Checkmate" => KingAttacked(game.board, game.active_colour)
        /\ game.game_over_reason = "Stalemate" => ~KingAttacked(game.board, game.active_colour)

\* the rank a pawn of the given colour is promoted on
LastRank(colour) == IF colour = "White" THEN 7 ELSE 0

\* a pawn of the given colour stands on its last rank
PawnOnLastRank(board, colour) ==
    \E file \in 0..7 : board[LastRank(colour) * 8 + file] = Piece("Pawn", colour)

\* C6: an accepted move that leaves no promotion pending, no fivefold
\* repetition and no insufficient material, and the opponent's king attacked
\* with the opponent without a legal move, ends the game by Checkmate; the
\* recorded game e2e3 e7e6 d1f3 e6e5 f1c4 e5e4 f3f7 ends so.
C6_CheckmateDeclared ==
    /\ ( /\ MoveAccepted
         /\ ~PawnOnLastRank(game.board, prev.active_colour)
         /\ ~is_fivefold_repetition(game)
         /\ ~insufficient_material(game)
         /\ KingAttacked(game.board, invert(prev.active_colour))
         /\ ~HasLegalMove(game, invert(prev.active_colour)) )
       => (game.state = "GameOver" /\ game.game_over_reason = "Checkmate")
    /\ (Lines[line] = LineCheckmate /\ step = Len(LineCheckmate) /\ ~left /\ MoveAccepted)
       => (game.state = "GameOver" /\ game.game_over_reason = "Checkmate")

\* the queen's move to f7 that ends the recorded game was accepted and mates
\* the black king
C6_Witness ==
    /\ MoveAccepted
    /\ Lines[line] = LineCheckmate
    /\ step = Len(LineCheckmate)
    /\ ~left
    /\ game.board[53] = Piece("Queen", "White")
    /\ KingAttacked(game.board, "Black")
    /\ ~HasLegalMove(game, "Black")
    /\ game.state = "GameOver"
    /\ game.game_over_reason = "Checkmate"

\* C7: once the state is GameOver no call of make_move, make_move_pos,
\* set_promotion or submit_draw changes anything of the game.
C7_GameOverChangesNothing ==
    (prev.state = "GameOver" /\ last.op # "new") => game = prev

\* C8: after a successful set_promotion that follows a promoting move of
\* colour c, the pawn's square holds a piece of colour c that is no pawn, the
\* active colour is the opponent of c, and the state returned is the state of
\* the game.
C8_PromotionPassesTheTurn ==
    (last.op = "set_promotion" /\ last.ok) =>
        /\ \E file \in 0..7 :
              LET sq == LastRank(prev.active_colour) * 8 + file
              IN  /\ prev.board[sq] = Piece("Pawn", prev.active_colour)
                  /\ game.board[sq].colour = prev.active_colour
                  /\ game.board[sq].piece_type \in {"Queen", "Rook", "Bishop", "Knight"}
        /\ game.active_colour = invert(prev.active_colour)
        /\ last.ret = game.state

\* C9: after an accepted move that puts a pawn of the mover on its last rank,
\* on any file, the state is WaitingOnPromotionChoice and the mover's colour
\* is still the active one.
C9_PawnOnLastRankAwaitsChoice ==
    (MoveAccepted /\ PawnOnLastRank(game.board, prev.active_colour)) =>
        /\ game.state = "WaitingOnPromotionChoice"
        /\ game.active_colour = prev.active_colour

\* C10: a move is accepted only from InProgress or Check; a successful
\* set_promotion leads from WaitingOnPromotionChoice to InProgress, Check or
\* GameOver; submit_draw leads to GameOver; a call that returns an error keeps
\* the state; no call leaves GameOver.
C10_StateTransitions ==
    /\ MoveAccepted =>
          /\ prev.state \in {"InProgress", "Check"}
          /\ game.state \in {"InProgress", "Check", "WaitingOnPromotionChoice", "GameOver"}
    /\ (last.op = "set_promotion" /\ last.ok) =>
          /\ prev.state = "WaitingOnPromotionChoice"
          /\ game.state \in {"InProgress", "Check", "GameOver"}
    /\ last.op = "submit_draw" => game.state = "GameOver"
    /\ ~last.ok => game.state = prev.state
    /\ (prev.state = "GameOver" /\ last.op # "new") => game.state = "GameOver"

\* a promotion was resolved and the game goes on
C10_Witness ==
    /\ last.op = "set_promotion"
    /\ last.ok
    /\ prev.state = "WaitingOnPromotionChoice"
    /\ game.state \in {"InProgress", "Check"}

\* C11: the game-over reason is set exactly when the state is GameOver.
C11_ReasonExactlyWhenGameOver ==
    (game.game_over_reason # "None") <=> (game.state = "GameOver")

\* a draw was submitted on a game that took moves
C11_Witness ==
    /\ last.op = "submit_draw"
    /\ Playing(prev)
    /\ game.state = "GameOver"
    /\ game.game_over_reason = "ManualDraw"

\* C12: in the state Check the king of the active colour is attacked by an
\* opposing piece, in the state InProgress it is attacked by none.
C12_CheckExactlyWhenKingAttacked ==
    /\ game.state = "Check" => KingAttacked(game.board, game.active_colour)
    /\ game.state = "InProgress" => ~KingAttacked(game.board, game.active_colour)

\* an accepted move gave check
C12_Witness ==
    /\ MoveAccepted
    /\ game.state = "Check"
    /\ game.active_colour = invert(prev.active_colour)
    /\ KingAttacked(game.board, game.active_colour)

\* the square the king of a colour starts on, and the corner of the rook it
\* castles with towards file_dir
Home(colour) == IF colour = "White" THEN 4 ELSE 60

Corner(colour, file_dir) == IF file_dir = 1 THEN Home(colour) + 3 ELSE Home(colour) - 4

\* the castling right of a colour towards file_dir (1 the king's side, -1 the
\* queen's side)
Right(g, colour, file_dir) ==
    IF colour = "White"
    THEN (IF file_dir = 1 THEN g.white_has_right_to_castle_kingside
          ELSE g.white_has_right_to_castle_queenside)
    ELSE (IF file_dir = 1 THEN g.black_has_right_to_castle_kingside
          ELSE g.black_has_right_to_castle_queenside)

\* the last call was an accepted castling of the colour towards file_dir
Castled(colour, file_dir) ==
    /\ MoveAccepted /\ Playing(prev) /\ prev.active_colour = colour
    /\ Right(prev, colour, file_dir)
    /\ prev.board[Home(colour)] = Piece("King", colour)
    /\ game.board[Home(colour) + 2 * file_dir] = Piece("King", colour)

\* C13: after every accepted castling move the rook of that side stands on the
\* square the king passed over, its corner is empty and both castling rights
\* of the castling colour are false, whatever the other three rights were.
C13_CastlingRelocatesRook ==
    \A colour \in Colours, file_dir \in {-1, 1} :
        Castled(colour, file_dir) =>
            /\ game.board[Home(colour) + file_dir] = Piece("Rook", colour)
            /\ game.board[Corner(colour, file_dir)] = None
            /\ ~Right(game, colour, 1)
            /\ ~Right(game, colour, -1)

\* the squares strictly between the king at home and the rook in its corner
BetweenKingAndRook(colour, file_dir) ==
    IF file_dir = 1
    THEN {Home(colour) + 1, Home(colour) + 2}
    ELSE {Home(colour) - 1, Home(colour) - 2, Home(colour) - 3}

\* the squares the king stands on, passes over and arrives at when castling
KingPath(colour, file_dir) ==
    {Home(colour), Home(colour) + file_dir, Home(colour) + 2 * file_dir}

\* C14: the castling arrival square is among the legal destinations of the
\* active colour's king on its home square exactly when the right of that side
\* is true, the squares between king and rook are empty, and the king's
\* square, the square it passes over and the arrival square are not attacked
\* by the opponent.
C14_CastlingOfferedExactlyWhenAllowed ==
    \A file_dir \in {-1, 1} :
        \A colour \in {game.active_colour} :
            game.board[Home(colour)] = Piece("King", colour) =>
                ((Home(colour) + 2 * file_dir \in Possible(game, Home(colour)))
                 <=> /\ Right(game, colour, file_dir)
                     /\ \A b \in BetweenKingAndRook(colour, file_dir) : game.board[b] = None
                     /\ \A b \in KingPath(colour, file_dir) :
                            ~AttackedSquare(game.board, b, colour))

\* White holds the right of the king's side, f1 and g1 are empty and the king
\* is not attacked, but f1 is, and g1 is not offered
C14_Witness ==
    /\ Playing(game) /\ game.active_colour = "White"
    /\ game.board[4] = Piece("King", "White")
    /\ Right(game, "White", 1)
    /\ game.board[5] = None /\ game.board[6] = None
    /\ ~AttackedSquare(game.board, 4, "White")
    /\ AttackedSquare(game.board, 5, "White")
    /\ 6 \notin Possible(game, 4)

\* the four castling rights of a game
Rights(g) ==
    <<g.white_has_right_to_castle_queenside, g.white_has_right_to_castle_kingside,
      g.black_has_right_to_castle_queenside, g.black_has_right_to_castle_kingside>>

\* C15: a castling right that is false is never true again, whatever call of
\* make_move, make_move_pos, set_promotion, submit_draw, put or remove follows.
C15_RightsMonotonic ==
    [][\A i \in 1..4 : Rights(game)'[i] => Rights(game)[i]]_vars

\* a rook is put back on a1 after White lost the right of the queen's side,
\* and the right stays false
C15_Witness ==
    /\ last.op = "put" /\ last.ok
    /\ prev.board[0] = None /\ game.board[0] = Piece("Rook", "White")
    /\ game.board[4] = Piece("King", "White")
    /\ ~Right(prev, "White", -1) /\ ~Right(game, "White", -1)

\* the rook home squares with the colour and side of the right tied to each
RookHomes ==
    {[idx |-> 0, colour |-> "White", file_dir |-> -1],
     [idx |-> 7, colour |-> "White", file_dir |-> 1],
     [idx |-> 56, colour |-> "Black", file_dir |-> -1],
     [idx |-> 63, colour |-> "Black", file_dir |-> 1]}

\* the last call was an accepted move that took the piece standing on idx
CapturedOn(idx) ==
    /\ MoveAccepted /\ Playing(prev)
    /\ prev.board[idx] # None /\ prev.board[idx].colour # prev.active_colour
    /\ game.board[idx] # None /\ game.board[idx].colour = prev.active_colour

\* C16: after an accepted move that captures a piece standing on a rook home
\* square the castling right tied to that square is false, whatever piece
\* made the capture.
C16_CaptureOnRookHomeRevokes ==
    \A h \in RookHomes : CapturedOn(h.idx) => ~Right(game, h.colour, h.file_dir)

\* the last call was an accepted move of the king of the colour, castling or
\* not
KingMoved(colour) ==
    /\ MoveAccepted /\ Playing(prev) /\ prev.active_colour = colour
    /\ \E a \in 0..63 :
          /\ prev.board[a] = Piece("King", colour)
          /\ game.board[a] # Piece("King", colour)

\* C17: after an accepted king move both castling rights of the mover are
\* false and, unless the move gives check, both castling rights of the other
\* colour are as they were.
C17_KingMoveRevokesOwnRights ==
    \A colour \in Colours :
        KingMoved(colour) =>
            /\ ~Right(game, colour, 1) /\ ~Right(game, colour, -1)
            /\ ~KingAttacked(game.board, invert(colour)) =>
                  \A file_dir \in {-1, 1} :
                      Right(game, invert(colour), file_dir)
                          = Right(prev, invert(colour), file_dir)

\* the white king has left e1 without castling and without giving check: White
\* has lost both rights it held, Black keeps both of its own
C17_Witness ==
    /\ KingMoved("White")
    /\ prev.board[4] = Piece("King", "White")
    /\ game.board[2] # Piece("King", "White") /\ game.board[6] # Piece("King", "White")
    /\ Right(prev, "White", 1) /\ Right(prev, "White", -1)
    /\ ~Right(game, "White", 1) /\ ~Right(game, "White", -1)
    /\ Right(game, "Black", 1) /\ Right(game, "Black", -1)

\* the last call was an accepted move of a rook of the mover from a to b that
\* was no castling
RookMove(a, b) ==
    /\ MoveAccepted /\ Playing(prev)
    /\ prev.board[a] = Piece("Rook", prev.active_colour)
    /\ game.board[a] = None
    /\ prev.board[b] # Piece("Rook", prev.active_colour)
    /\ game.board[b] = Piece("Rook", prev.active_colour)
    /\ \A k \in 0..63 : is_king(prev.board[k]) => game.board[k] = prev.board[k]

\* the last move left the king of the colour that is to answer attacked
GaveCheck == KingAttacked(game.board, invert(prev.active_colour))

C18_WitnessElsewhere ==
    /\ \E a \in (0..63) \ {0, 7, 56, 63}, b \in 0..63 : RookMove(a, b)
    /\ ~GaveCheck
    /\ Rights(prev) = Rights(game)
    /\ \E i \in 1..4 : Rights(game)[i]

\* the last move is one that by the rules of move application touches the
\* right of a colour towards file_dir: a move of that colour's king, a move of
\* its rook off the corner of that side, or a capture on that corner
TouchedByMove(colour, file_dir) ==
    \/ KingMoved(colour)
    \/ \E b \in 0..63 : RookMove(Corner(colour, file_dir), b)
    \/ CapturedOn(Corner(colour, file_dir))

\* C19: when an accepted move puts the game in state Check, both castling
\* rights of the checked colour, which is the active colour, are false, and
\* a right of the checking colour changes only where the move itself touches
\* it.
C19_CheckRevokesRights ==
    (MoveAccepted /\ game.state = "Check") =>
        /\ game.active_colour = invert(prev.active_colour)
        /\ ~Right(game, game.active_colour, 1)
        /\ ~Right(game, game.active_colour, -1)
        /\ \A file_dir \in {-1, 1} :
              Right(game, prev.active_colour, file_dir)
                      # Right(prev, prev.active_colour, file_dir)
                  => TouchedByMove(prev.active_colour, file_dir)

\* a move has given check to a colour that held both rights, and the checking
\* colour keeps the rights it held
C19_Witness ==
    /\ MoveAccepted /\ game.state = "Check"
    /\ Right(prev, game.active_colour, 1) /\ Right(prev, game.active_colour, -1)
    /\ ~Right(game, game.active_colour, 1) /\ ~Right(game, game.active_colour, -1)
    /\ Right(game, prev.active_colour, 1) /\ Right(game, prev.active_colour, -1)

\* the last call was an accepted double step of a pawn of the mover from a
DoubleStepFrom(a) ==
    /\ MoveAccepted /\ Playing(prev)
    /\ RankOf(a) = (IF prev.active_colour = "White" THEN 1 ELSE 6)
    /\ prev.board[a] = Piece("Pawn", prev.active_colour)
    /\ game.board[a] = None
    /\ prev.board[a + 16 * Forward(prev.active_colour)] = None
    /\ game.board[a + 16 * Forward(prev.active_colour)] = Piece("Pawn", prev.active_colour)

\* the squares a pawn on a takes towards, one rank forward and one file aside
PawnDiagonals(colour, a) ==
    {b \in 0..63 : /\ RankOf(b) - RankOf(a) = Forward(colour)
                   /\ Abs(FileOf(b) - FileOf(a)) = 1}

\* C20: after an accepted move the en-passant target is the square passed over
\* if the move was a double step of a pawn and null otherwise, so that a pawn
\* is offered an empty square to take on only while that square is the target
\* the move just before has set.
C20_EnPassantTargetForOneMove ==
    /\ MoveAccepted =>
          /\ \A a \in 0..63 :
                DoubleStepFrom(a) =>
                    game.en_passant_target = new_from_idx(a + 8 * Forward(prev.active_colour))
          /\ (~\E a \in 0..63 : DoubleStepFrom(a)) => game.en_passant_target = NULL
    /\ Playing(game) =>
          \A a \in 0..63 :
              game.board[a] = Piece("Pawn", game.active_colour) =>
                  \A b \in PawnDiagonals(game.active_colour, a) \cap Possible(game, a) :
                      game.board[b] = None => game.en_passant_target = new_from_idx(b)

\* the pawn of d7 went to d5 beside the white pawn of e5, one move of each side
\* followed, and a call of White on this game was refused: the target is null
\* and d6 is not offered to the pawn of e5
C20_Witness ==
    /\ MoveCalled /\ ~last.ok
    /\ Playing(game) /\ game.active_colour = "White"
    /\ \E i \in 1..Len(game.history) :
          /\ game.history[i].from = <<"d", "7">> /\ game.history[i].to = <<"d", "5">>
          /\ i + 2 = Len(game.history)
    /\ game.board[36] = Piece("Pawn", "White")
    /\ game.board[35] = Piece("Pawn", "Black")
    /\ game.board[43] = None
    /\ game.en_passant_target = NULL
    /\ 43 \notin Possible(game, 36)

\* the last call was an accepted move of a pawn of the mover from a onto the
\* en-passant target that stood before the move
TookEnPassantFrom(a) ==
    /\ MoveAccepted /\ Playing(prev)
    /\ prev.en_passant_target # NULL
    /\ prev.board[a] = Piece("Pawn", prev.active_colour)
    /\ game.board[a] = None
    /\ game.board[prev.en_passant_target.idx] = Piece("Pawn", prev.active_colour)

\* C21: when a pawn of the active colour moves onto the standing en-passant
\* target, the pawn stands on the target after the move, its source square is
\* empty, the enemy pawn one rank behind the target is gone, and no other
\* square has changed.
C21_EnPassantRemovesPawn ==
    \A a \in 0..63 :
        TookEnPassantFrom(a) =>
            \E t \in {prev.en_passant_target.idx} :
                \E behind \in {t - 8 * Forward(prev.active_colour)} :
                    /\ prev.board[t] = None
                    /\ prev.board[behind] = Piece("Pawn", invert(prev.active_colour))
                    /\ game.board[behind] = None
                    /\ \A i \in (0..63) \ {a, t, behind} : game.board[i] = prev.board[i]

\* the white pawn of e5 has taken the pawn of d5 in passing: it stands on d6,
\* e5 and d5 are empty
C21_Witness ==
    /\ TookEnPassantFrom(36)
    /\ prev.en_passant_target = new_from_idx(43)
    /\ prev.board[35] = Piece("Pawn", "Black")
    /\ game.board[43] = Piece("Pawn", "White")
    /\ game.board[36] = None /\ game.board[35] = None

\* the pieces of a colour on a board
PiecesOf(board, colour) == {i \in 0..63 : board[i].colour = colour}

\* the last move moved a pawn: a pawn of the mover left its square
PawnMoved ==
    \E a \in 0..63 :
        prev.board[a] = Piece("Pawn", prev.active_colour) /\ game.board[a] = None

\* the last move captured: the opponent of the mover has a piece less
Captured ==
    Cardinality(PiecesOf(game.board, invert(prev.active_colour)))
        < Cardinality(PiecesOf(prev.board, invert(prev.active_colour)))

\* C26: after an accepted move the half-move clock is 0 if a pawn moved or a
\* piece was captured (en passant included) and is otherwise one more than
\* before; the full-move counter is one more exactly when Black moved;
\* set_promotion and submit_draw change neither counter.
C26_Counters ==
    /\ MoveAccepted =>
          /\ game.halfmoves = IF PawnMoved \/ Captured THEN 0 ELSE prev.halfmoves + 1
          /\ game.fullmoves = IF prev.active_colour = "Black"
                              THEN prev.fullmoves + 1 ELSE prev.fullmoves
    /\ last.op \in {"set_promotion", "submit_draw"} =>
          /\ game.halfmoves = prev.halfmoves
          /\ game.fullmoves = prev.fullmoves

\* a piece that is no pawn captured: the clock fell from above 0 to 0
C26_Witness ==
    /\ MoveAccepted /\ Captured /\ ~PawnMoved
    /\ prev.halfmoves > 0 /\ game.halfmoves = 0

\* Black moved a piece without capturing: both counters went up by one
C26_WitnessQuiet ==
    /\ MoveAccepted /\ ~Captured /\ ~PawnMoved
    /\ prev.active_colour = "Black"
    /\ game.halfmoves = prev.halfmoves + 1 /\ game.fullmoves = prev.fullmoves + 1

\* C27: the history is append-only with one entry per accepted move: an
\* accepted move appends exactly one entry to the history as it was, and a
\* rejected move, set_promotion and submit_draw leave the history as it was.
C27_HistoryAppendOnly ==
    /\ MoveAccepted =>
          /\ Len(game.history) = Len(prev.history) + 1
          /\ SubSeq(game.history, 1, Len(prev.history)) = prev.history
    /\ (last.op # "new" /\ ~MoveAccepted) => game.history = prev.history
    /\ ~left => Len(game.history) <= step

\* a third or later move was accepted and its entry stands behind the others
C27_Witness ==
    /\ MoveAccepted
    /\ Len(prev.history) >= 2
    /\ Len(game.history) = Len(prev.history) + 1
    /\ SubSeq(game.history, 1, Len(prev.history)) = prev.history
    /\ game.history[Len(game.history)].piece_moved = prev.board[parse_str(
           game.history[Len(game.history)].from).idx]

\* C30: submit_draw called in InProgress, Check or WaitingOnPromotionChoice
\* puts the game in GameOver with reason ManualDraw and changes nothing else:
\* board, active colour, castling rights, en-passant target, counters and
\* history are as before.
C30_SubmitDrawOnlyEndsGame ==
    (last.op = "submit_draw" /\ prev.state # "GameOver") =>
        /\ game.state = "GameOver"
        /\ game.game_over_reason = "ManualDraw"
        /\ game = [prev EXCEPT !.state = "GameOver", !.game_over_reason = "ManualDraw"]

\* a draw was submitted while an en-passant target was set
C30_Witness ==
    /\ last.op = "submit_draw"
    /\ prev.state \in {"InProgress", "Check"}
    /\ prev.en_passant_target # NULL
    /\ game.state = "GameOver" /\ game.game_over_reason = "ManualDraw"
    /\ game.en_passant_target = prev.en_passant_target
    /\ game.board = prev.board

\* a draw was submitted while a promotion was pending
C30_WitnessPromotion ==
    /\ last.op = "submit_draw"
    /\ prev.state = "WaitingOnPromotionChoice"
    /\ game.state = "GameOver" /\ game.game_over_reason = "ManualDraw"

\* the name of square i as a fen prints it
SquareName(i) == <<FileChars[FileOf(i) + 1], RankChars[RankOf(i) + 1]>>

\* a pawn of the side to move stands where it can take on the en-passant
\* target, on the file to the left or to the right of it
EnPassantEligible(g) ==
    /\ g.en_passant_target # NULL
    /\ \E a \in 0..63 :
          /\ g.board[a] = Piece("Pawn", g.active_colour)
          /\ g.en_passant_target.idx \in PawnDiagonals(g.active_colour, a)

\* C29: the fourth field of the fen names the en-passant target if and only
\* if the target is set and a pawn of the side to move stands on the file to
\* the left or to the right of it, where it can take onto the target;
\* otherwise the field is "-".
C29_EnPassantField ==
    fen(game)[4] = IF EnPassantEligible(game)
                   THEN SquareName(game.en_passant_target.idx)
                   ELSE <<"-">>

\* the games a caller has gone through after the first n moves of a recorded
\* game l, the new game first
RECURSIVE Replayed(_, _)
Replayed(l, n) ==
    IF n = 0 THEN <<Game_new>>
    ELSE CHOOSE r \in {Append(s, make_move(s[n], l[n][1], l[n][2]).game) :
                          s \in {Replayed(l, n - 1)}} : TRUE

\* the games of every recorded game with repetitions
ReplayedGames == [i \in GamesOfRepetition |-> Replayed(Lines[i], Len(Lines[i]))]

\* the en-passant target a pawn of the side to move can take on, NULL if none
EnPassantOpen(g) == IF EnPassantEligible(g) THEN g.en_passant_target ELSE NULL

\* two games show the same position for the repetition rules
SamePosition(a, b) ==
    /\ a.board = b.board
    /\ a.active_colour = b.active_colour
    /\ Rights(a) = Rights(b)
    /\ EnPassantOpen(a) = EnPassantOpen(b)

\* two games count as occurrences of one position: the first four fields of
\* their fen are equal
CountAsSame(a, b) == \A i \in 1..4 : fen(a)[i] = fen(b)[i]

\* C28: two states with the same placement, side to move and en-passant
\* eligibility but different sets of castling rights never count as
\* occurrences of the same position: the game and the end of any recorded game
\* that differ only in the rights have different fingerprints.
C28_FingerprintTellsRights ==
    \A i \in GamesOfRepetition :
        \E other \in {ReplayedGames[i][Len(Lines[i]) + 1]} :
            (/\ game.board = other.board
             /\ game.active_colour = other.active_colour
             /\ EnPassantOpen(game) = EnPassantOpen(other)
             /\ Rights(game) # Rights(other)) => ~CountAsSame(game, other)

\* the game as it was before the k-th accepted move: the caller's recorded
\* game up to the move it went on with, and the game before its own move
PastOf(k) == IF k <= step THEN ReplayedGames[line][k] ELSE prev

\* how often the position now on the board has occurred before
PriorOccurrences ==
    Cardinality({k \in 1..Len(game.history) : SamePosition(PastOf(k), game)})

\* C22: after an accepted move with no promotion pending the game is over for
\* FivefoldRepetition exactly when the position now on the board (placement,
\* side to move, castling rights, en-passant eligibility) has occurred at
\* least 4 times before; with fewer prior occurrences it is not ended for
\* repetition, and is_threefold_repetition reports true from 2 prior
\* occurrences on.
C22_FivefoldRepetition ==
    (MoveAccepted /\ game.state # "WaitingOnPromotionChoice") =>
        /\ (game.state = "GameOver" /\ game.game_over_reason = "FivefoldRepetitionRule")
               <=> PriorOccurrences >= 4
        /\ PriorOccurrences >= 2 => is_threefold_repetition(game)

\* the recorded games are replayed move by move as Replayed gives them
ReplayedAsPlayed ==
    (~left /\ last.op \in {"new", "make_move"} /\ last.ok) =>
        /\ Len(game.history) = step
        /\ game = ReplayedGames[line][step + 1]

\* C24: when an accepted move brings the half-move clock to 150 and the
\* position is neither a fivefold repetition, nor insufficient material, nor
\* checkmate, nor stalemate, the game is over for SeventyFiveMoveRule; the game
\* is never InProgress or Check with 150 or more on the clock; with 100 to 149
\* on the clock it continues and is_50_move_rule reports true.
C24_SeventyFiveMoveRule ==
    /\ (/\ MoveAccepted
        /\ game.halfmoves >= 150
        /\ game.game_over_reason \notin {"FivefoldRepetitionRule", "InsufficientMaterial"}
        /\ HasLegalMove(game, game.active_colour)) =>
           (game.state = "GameOver" /\ game.game_over_reason = "SeventyFiveMoveRule")
    /\ Playing(game) => game.halfmoves < 150
    /\ (MoveAccepted /\ game.halfmoves \in 100..149) =>
           /\ is_50_move_rule(game)
           /\ game.game_over_reason # "SeventyFiveMoveRule"
           /\ (/\ game.game_over_reason \notin {"FivefoldRepetitionRule",
                                                "InsufficientMaterial"}
               /\ HasLegalMove(game, game.active_colour)) => Playing(game)

\* the 150th move without a pawn move or a capture left the opponent a legal
\* move and ended the game
C24_Witness ==
    /\ MoveAccepted
    /\ prev.halfmoves = 149 /\ game.halfmoves = 150
    /\ HasLegalMove(game, game.active_colour)
    /\ game.state = "GameOver" /\ game.game_over_reason = "SeventyFiveMoveRule"

\* the 100th move without a pawn move or a capture: the game goes on
C24_WitnessFifty ==
    /\ MoveAccepted
    /\ game.halfmoves = 100
    /\ is_50_move_rule(game) /\ ~is_50_move_rule(prev)
    /\ Playing(game)

\* C23: checkmate and stalemate take precedence over the seventy-five-move
\* rule: when the side to move after an accepted move has no legal move and
\* the half-move clock is at least 150, the game is over with reason Checkmate
\* if its king is attacked and Stalemate if not, and not SeventyFiveMoveRule.
C23_MateBeforeSeventyFive ==
    (/\ MoveAccepted
     /\ game.state # "WaitingOnPromotionChoice"
     /\ game.halfmoves >= 150
     /\ game.game_over_reason \notin {"FivefoldRepetitionRule", "InsufficientMaterial"}
     /\ ~HasLegalMove(game, game.active_colour)) =>
        /\ game.state = "GameOver"
        /\ game.game_over_reason = IF KingAttacked(game.board, game.active_colour)
                                   THEN "Checkmate" ELSE "Stalemate"

\* the squares of a board that hold a piece other than a king
Others(board) == {i \in 0..63 : board[i] # None /\ board[i].piece_type # "King"}

\* the material on the board is one that cannot mate: the two kings alone,
\* with a single bishop or knight, or with a bishop each on squares of one
\* colour (equal parity of rank + file)
DeadMaterial(board) ==
    /\ \A colour \in Colours :
          Cardinality({i \in 0..63 : board[i] = Piece("King", colour)}) = 1
    /\ \/ Others(board) = {}
       \/ \E i \in 0..63 :
             /\ Others(board) = {i}
             /\ board[i].piece_type \in {"Bishop", "Knight"}
       \/ \E i, j \in 0..63 :
             /\ Others(board) = {i, j}
             /\ board[i] = Piece("Bishop", "White")
             /\ board[j] = Piece("Bishop", "Black")
             /\ (RankOf(i) + FileOf(i)) % 2 = (RankOf(j) + FileOf(j)) % 2

\* C25: after an accepted move with no promotion pending and no fivefold
\* repetition the game is over for InsufficientMaterial if and only if the
\* material left is the two kings alone, the two kings with a single bishop or
\* knight, or king and bishop against king and bishop with both bishops on
\* squares of the same colour; in every other situation, two bishops on
\* squares of opposite colours included, it is not.
C25_InsufficientMaterial ==
    (/\ MoveAccepted
     /\ game.state # "WaitingOnPromotionChoice"
     /\ game.game_over_reason # "FivefoldRepetitionRule") =>
        ((game.state = "GameOver" /\ game.game_over_reason = "InsufficientMaterial")
            <=> DeadMaterial(game.board))

\* C31: set_promotion returns an error and leaves the whole game unchanged
\* when the state is not WaitingOnPromotionChoice or the chosen type is King
\* or Pawn; in WaitingOnPromotionChoice it succeeds for Queen, Rook, Bishop
\* and Knight. Stated of the call on the game as it is, for every piece type,
\* and of the call the caller has just made.
C31_SetPromotionErrors ==
    /\ \A piece_type \in PieceTypes :
          \E r \in {set_promotion(game, piece_type)} :
             IF game.state # "WaitingOnPromotionChoice" \/ piece_type \in {"King", "Pawn"}
             THEN ~r.ok /\ r.game = game
             ELSE r.ok
    /\ (last.op = "set_promotion" /\ ~last.ok) => game = prev
    /\ (last.op = "set_promotion" /\ prev.state # "WaitingOnPromotionChoice") => ~last.ok

\* a king or a pawn was chosen while the game waited for the choice
C31_Witness ==
    /\ last.op = "set_promotion" /\ ~last.ok
    /\ prev.state = "WaitingOnPromotionChoice"
    /\ game = prev
    /\ \A piece_type \in {"Queen", "Rook", "Bishop", "Knight"} :
          set_promotion(game, piece_type).ok

\* the pawn on square a is of the colour entitled to take en passant: the
\* target lies on the rank its opponent's double step has passed
EntitledToEnPassant(g, a) ==
    /\ g.en_passant_target # NULL
    /\ RankOf(g.en_passant_target.idx) = IF g.board[a].colour = "White" THEN 5 ELSE 2

\* the legal moves of the piece on square a whatever the side to move: those
\* that do not leave the king of its colour attacked, taking en passant only
\* if its colour is entitled to
LegalOfPiece(g, a) ==
    {b \in Legal(g, a) :
        (/\ g.board[a].piece_type = "Pawn"
         /\ FileOf(a) # FileOf(b)
         /\ g.board[b] = None) => EntitledToEnPassant(g, a)}

\* C32: get_possible_moves filters for the safety of the king of the colour
\* of the piece on the queried square: for a piece of the non-active colour
\* too a destination is returned exactly when the move does not leave that
\* piece's own king in check, and an en-passant destination only for a pawn
\* of the colour entitled to capture.
C32_FilterByPieceColour ==
    \A a \in 0..63 :
        (game.board[a] # None /\ game.board[a].colour # game.active_colour) =>
            Possible(game, a) = LegalOfPiece(game, a)

\* the pieces of the mover's opponent the last move took off the board
Taken ==
    {prev.board[i] : i \in {i \in 0..63 :
        /\ prev.board[i].colour = invert(prev.active_colour)
        /\ game.board[i] # prev.board[i]}}

\* C33: the history entry of an accepted move records the piece the move
\* captured: piece_captured is None if and only if the move removed no enemy
\* piece from the board, and for an en-passant capture it is the pawn taken.
C33_HistoryRecordsCapture ==
    (MoveAccepted /\ Len(game.history) = Len(prev.history) + 1) =>
        \E entry \in {game.history[Len(game.history)]} :
            /\ entry.piece_captured = None <=> Taken = {}
            /\ Taken # {} => entry.piece_captured \in Taken

\* the piece of square i in the standard initial placement
StandardPiece(i) ==
    LET back == <<"Rook", "Knight", "Bishop", "Queen", "King", "Bishop", "Knight", "Rook">>
    IN  CASE RankOf(i) = 0 -> Piece(back[FileOf(i) + 1], "White")
          [] RankOf(i) = 1 -> Piece("Pawn", "White")
          [] RankOf(i) = 6 -> Piece("Pawn", "Black")
          [] RankOf(i) = 7 -> Piece(back[FileOf(i) + 1], "Black")
          [] OTHER -> None

\* C34: a new game is InProgress with no game-over reason, White to move, the
\* standard initial placement, all four castling rights true, a null
\* en-passant target, half-move clock 0 and an empty history.
C34_NewGame ==
    last.op = "new" =>
        /\ game.state = "InProgress"
        /\ game.game_over_reason = "None"
        /\ game.active_colour = "White"
        /\ \A i \in 0..63 : game.board[i] = StandardPiece(i)
        /\ Rights(game) = <<TRUE, TRUE, TRUE, TRUE>>
        /\ game.en_passant_target = NULL
        /\ game.halfmoves = 0
        /\ game.history = <<>>

\* the game right after Game::new, before any call
C34_Witness ==
    /\ last.op = "new" /\ step = 0 /\ ~left
    /\ game.board[4] = Piece("King", "White")
    /\ game.board[59] = Piece("Queen", "Black")
    /\ game.active_colour = "White"
    /\ Len(game.history) = 0

\* a Position names a square: rank and file within 0..7 and idx = rank*8 + file
NamesSquare(pos) ==
    /\ pos.rank \in 0..7
    /\ pos.file \in 0..7
    /\ pos.idx = pos.rank * 8 + pos.file

\* the Position values the callers pass
PositionValues == InputPositions \cup EditPositions

\* C35: Position::valid succeeds if and only if rank and file are in 0..7 and
\* idx = rank*8 + file; it fails for the null sentinel and for every Position
\* with a file or rank outside 0..7, so put, remove and make_move_pos reject
\* every such position.
C35_ValidExactlyForSquares ==
    /\ \A pos \in PositionValues : valid(pos) <=> NamesSquare(pos)
    /\ \A pos \in PositionValues :
          ~NamesSquare(pos) =>
              /\ ~remove(game, pos).ok
              /\ ~put(game, pos, Piece("Rook", "White")).ok
              /\ \A to_pos \in {Position_new(3, 4), pos} :
                    ~make_move_pos(game, pos, to_pos).ok
    /\ (last.op = "remove" /\ last.ok) =>
          \E pos \in EditPositions : NamesSquare(pos) /\ game = remove(prev, pos).game

\* the kings of a colour on a board
KingsOf(board, colour) == {i \in 0..63 : board[i] = Piece("King", colour)}

\* placing the piece on pos would give its colour a second king
SecondKing(board, pos, piece) ==
    /\ piece.piece_type = "King"
    /\ KingsOf(board, piece.colour) \ {pos.idx} # {}

\* C36: put(pos, piece) fails, leaving the board unchanged, if pos is invalid
\* or if piece is a king and placing it would create a second king of its
\* colour; otherwise it sets exactly the slot at pos to the piece. Under the
\* put and remove calls of the caller the board holds at most one king of
\* each colour.
C36_PutKeepsOneKing ==
    /\ \A pos \in EditPositions, piece \in EditPieces :
          \E r \in {put(game, pos, piece)} :
             IF ~NamesSquare(pos) \/ SecondKing(game.board, pos, piece)
             THEN ~r.ok /\ r.game = game
             ELSE r.ok /\ r.game = [game EXCEPT !.board[pos.idx] = piece]
    /\ (last.op = "put" /\ ~last.ok) => game = prev
    /\ \A colour \in Colours : Cardinality(KingsOf(game.board, colour)) <= 1

\* C37: in every state reached by play from a new game, whenever a castling
\* right is true the king of that colour stands on its start square and a rook
\* of that colour on the corner of that side, so that the piece castling
\* relocates is always that colour's rook.
C37_RightsImplyKingAndRook ==
    \A colour \in Colours, file_dir \in {-1, 1} :
        Right(game, colour, file_dir) =>
            /\ game.board[Home(colour)] = Piece("King", colour)
            /\ game.board[Corner(colour, file_dir)] = Piece("Rook", colour)

\* C38: in every state reached from a new game by make_move, set_promotion and
\* submit_draw calls the board holds exactly one white king and exactly one
\* black king: a king is never captured and never duplicated.
C38_OneKingEach ==
    \A colour \in Colours : Cardinality(KingsOf(game.board, colour)) = 1

\* Game::try_move: the half-move clock of the game_clone the call moves the
\* piece in, none where the call returns before it clones the game
try_move_clone(g, from_pos, rank_step, file_step, steps, recursion_order) ==
    LET to_pos == try_move_walk(g, g.board[from_pos.idx].colour, from_pos,
                                rank_step, file_step, 1, steps)
    IN  IF to_pos = ErrPos \/ recursion_order >= MAX_RECURSIONS THEN {}
        ELSE {move_piece(g, from_pos, to_pos).halfmoves}

\* the clocks of the clones made by the loop `for steps in 1..8` along one
\* direction, which ends at the first step try_move refuses
RECURSIVE slide_clones(_, _, _, _, _, _)
slide_clones(g, pos, rank_step, file_step, steps, recursion_order) ==
    IF steps >= 8 THEN {}
    ELSE try_move_clone(g, pos, rank_step, file_step, steps, recursion_order)
         \cup (IF try_move(g, pos, rank_step, file_step, steps, recursion_order)
               THEN slide_clones(g, pos, rank_step, file_step, steps + 1, recursion_order)
               ELSE {})

\* Game::get_possible_moves: the clocks of the clones made by the try_move
\* calls of _get_possible_moves(pos, 0)
get_possible_moves_clones(g, pos) ==
    LET recursion_order == 1
        piece == g.board[pos.idx]
        dir == pawn_dir(piece.colour)
        is_on_first_rank == (piece.colour = "White" /\ pos.rank = 1)
                            \/ (piece.colour = "Black" /\ pos.rank = 6)
        castles ==
            IF piece.colour = "White"
            THEN castle(g, g.white_has_right_to_castle_queenside, {1, 2, 3},
                        Position_new(0, 4), -1)
                 \cup castle(g, g.white_has_right_to_castle_kingside, {5, 6},
                             Position_new(0, 4), 1)
            ELSE castle(g, g.black_has_right_to_castle_queenside, {57, 58, 59},
                        Position_new(7, 4), -1)
                 \cup castle(g, g.black_has_right_to_castle_kingside, {61, 62},
                             Position_new(7, 4), 1)
        probes ==
            CASE piece.piece_type = "King" ->
                    {<<pos, d[1], d[2], 1>> : d \in KingSteps}
                    \cup UNION {m.probes : m \in castles}
              [] piece.piece_type = "Knight" -> {<<pos, d[1], d[2], 1>> : d \in KnightSteps}
              [] piece.piece_type = "Pawn" ->
                    {<<pos, dir, 0, i>> : i \in (IF is_on_first_rank THEN 1..2 ELSE 1..1)}
                    \cup {<<pos, dir, i, 1>> : i \in {-1, 1}}
              [] OTHER -> {}
        directions ==
            CASE piece.piece_type = "Queen" -> KingSteps
              [] piece.piece_type = "Bishop" -> BishopSteps
              [] piece.piece_type = "Rook" -> RookSteps
              [] OTHER -> {}
    IN  IF piece = None THEN {}
        ELSE UNION {try_move_clone(g, q[1], q[2], q[3], q[4], recursion_order) : q \in probes}
             \cup UNION {slide_clones(g, pos, d[1], d[2], 1, recursion_order) :
                            d \in directions}

\* Game::_can_make_legal_move: the clocks of the clones made in the loop over
\* the board from square i on, which returns at the first piece of the active
\* colour that has a possible move
RECURSIVE can_make_legal_move_from(_, _)
can_make_legal_move_from(g, i) ==
    IF i > 63 THEN {}
    ELSE IF g.board[i] = None \/ g.board[i].colour # g.active_colour
    THEN can_make_legal_move_from(g, i + 1)
    ELSE get_possible_moves_clones(g, new_from_idx(i))
         \cup (IF _get_possible_moves(g, new_from_idx(i), 0) # {} THEN {}
               ELSE can_make_legal_move_from(g, i + 1))

can_make_legal_move_clones(g) == can_make_legal_move_from(g, 0)

\* Game::update_game_state: the clocks of the clones it makes, none where it
\* returns for a promotion, a fivefold repetition or insufficient material
update_game_state_clones(g) ==
    IF find_pawn_to_promote(g) # ErrPos THEN {}
    ELSE LET turned == [g EXCEPT !.active_colour = invert(@)]
         IN  IF is_fivefold_repetition(turned) \/ insufficient_material(turned) THEN {}
             ELSE can_make_legal_move_clones(turned)

\* Game::make_move_pos: the clocks of the clones made by its call of
\* get_possible_moves and, where the move is made, by update_game_state
make_move_pos_clones(g, from_pos, to_pos) ==
    IF make_move_pos_error(g, from_pos, to_pos, {to_pos}) # "None" THEN {}
    ELSE get_possible_moves_clones(g, from_pos)
         \cup (IF to_pos \in get_possible_moves(g, from_pos)
               THEN update_game_state_clones(_perfom_move(g, from_pos, to_pos))
               ELSE {})

\* Game::set_promotion: the clocks of the clones made by update_game_state
set_promotion_clones(g, piece_type) ==
    IF ~set_promotion(g, piece_type).ok THEN {}
    ELSE update_game_state_clones(
             [g EXCEPT !.board[find_pawn_to_promote(g).idx] =
                             Piece(piece_type, g.active_colour),
                       !.active_colour = invert(@)])

\* the clocks of the copies of the game made by the last call, where it was
\* accepted: the move is the last entry of the history, the piece chosen for
\* the promotion stands where the pawn stood
LastCallClocks ==
    IF last.ok /\ last.op \in {"make_move", "make_move_pos"}
    THEN LET played == game.history[Len(game.history)]
         IN  make_move_pos_clones(prev, parse_str(played.from), parse_str(played.to))
    ELSE IF last.ok /\ last.op = "set_promotion"
    THEN set_promotion_clones(
             prev, game.board[find_pawn_to_promote(prev).idx].piece_type)
    ELSE {}

\* the clocks of the copies that make_move_pos makes of g before it refuses
\* a move of the piece on a square
RefusedCallClocks(g) ==
    UNION {make_move_pos_clones(g, new_from_idx(i), new_from_idx(i)) : i \in 0..63}

\* the clocks of the transient copies seen from a state: those of the call
\* that led to it and those of a call it refuses
TransientClocks == LastCallClocks \cup RefusedCallClocks(game)

\* the recorded games that run the half-move clock up to 150, and the games
\* with a promotion
GamesOfClock ==
    {i \in 1..Len(Lines) :
        Lines[i] \in {LineSeventyFive, LineQuiet, LinePromotion, LinePromotionH}}

\* a new game of a caller that replays one of these games
InitClock ==
    /\ game = Game_new
    /\ prev = Game_new
    /\ last = [op |-> "new", ok |-> TRUE, ret |-> "InProgress"]
    /\ line \in GamesOfClock
    /\ step = 0
    /\ left = FALSE

SpecClock == InitClock /\ [][Next]_vars

\* C39: the half-move clock never exceeds 150 in any state reached by make_move
\* and set_promotion, nor in any of the transient copies a call makes to
\* simulate candidate moves.
C39_ClockAtMost150 ==
    /\ game.halfmoves <= 150
    /\ \A clock \in TransientClocks : clock <= 150

\* C39 (amended): the half-move clock of the game never exceeds 150 and that
\* of a transient copy never exceeds 151, so that the increment of the u8
\* never overflows.
C39_ClockNeverOverflows ==
    /\ game.halfmoves <= 150
    /\ \A clock \in TransientClocks : clock <= 151

\* the 150th move without a pawn move or a capture was accepted, and a copy
\* made to simulate a reply had its clock at 151
C39_Witness ==
    /\ last.ok /\ last.op \in {"make_move", "make_move_pos"}
    /\ game.halfmoves = 150
    /\ 151 \in LastCallClocks

====
